---- MODULE Spec2Model ----
(***************************************************************************)
(* A model of the NFSv4.1 client of bobbobbio/nfs4: the Sun-RPC client     *)
(* (sun_rpc_client), the COMPOUND engine and the session client            *)
(* (nfs4_client).  A blocking call is split where it blocks: the part that *)
(* builds and writes the call message, and the part that reads the reply   *)
(* and computes the result.  The server and the transport are the          *)
(* environment.  The wire formats (record framing, attribute maps,         *)
(* status results, tagged unions) and the read_all and write_all loops     *)
(* have specifications of their own, further down.                         *)
(***************************************************************************)
EXTENDS Integers, Sequences, FiniteSets, TLC

VARIABLES
    phase,            \* where the caller is: inside Client::new, ready, or ended
    io,               \* "idle", or "await": a call is blocked in receive_reply
    cur,              \* the geometry of the request of the current or last call
    xid,              \* RpcClient.xid
    sequence_id,      \* Client.sequence_id
    session,          \* Client.session.session_id
    client_id,        \* Client.client_id
    max_read,         \* Client.max_read
    max_write,        \* Client.max_write
    supported_attrs,  \* Client.supported_attrs
    sent,             \* the call messages written to the transport, in order
    answered,         \* how many of them the server has answered
    rx,               \* reply fragments written by the server and not yet read
    aligned,          \* the read side of the stream is at a fragment header
    results,          \* the kind of result of every finished do_compound, in order
    last,             \* the result of the last finished do_compound
    got,              \* the reply fragment the last finished do_compound read, if any
    ncalls,           \* calls made to Client::do_compound
    nraw              \* calls made to ClientWithoutSession::do_compound

clientVars == <<phase, io, cur, xid, sequence_id, session, client_id, max_read,
                max_write, supported_attrs, sent, answered, rx, aligned, results,
                last, got, ncalls, nraw>>

\* one value taken through an encoder and back through the decoder
VARIABLES
    stage,            \* "none", "value", "encoded" or "decoded"
    value,            \* the value handed to the encoder
    wire,             \* what the encoder wrote, or what a peer wrote
    back              \* what the decoder returned

codecVars == <<stage, value, wire, back>>

\* one run of Client::read_all or Client::write_all
VARIABLES
    pc,               \* where the loop is
    file_offset,      \* the local offset of read_all and write_all
    amount_read,      \* write_all's amount_read
    buf,              \* write_all's buf
    source,           \* the bytes write_all's source has left
    consumed,         \* the bytes write_all has read from its source
    sink,             \* the bytes read_all has written to its sink
    file,             \* the server's file
    ops               \* the Read or Write ops issued, with the server's answers

loopVars == <<pc, file_offset, amount_read, buf, source, consumed, sink, file, ops>>

\* a ready Client, the files of the server it talks to and the method calls made
VARIABLES
    client_owner,     \* Client.client_owner.owner_id
    fs,               \* the server's files: the entries of /files and the sizes
    calls,            \* the method calls finished, each with its result, in order
    cookie,           \* read_dir's cookie
    entries           \* read_dir's entries

fsVars == <<client_owner, fs, calls, cookie, entries>>

vars == <<clientVars, codecVars, loopVars, fsVars>>

(***************************************************************************)
(* Bounds of the model.                                                    *)
(***************************************************************************)
\* do_compound calls in one run (the handshake takes three)
MaxCalls == 5
\* elements of a vector request, in the engine's own specification
MaxVec == 2

(***************************************************************************)
(* The two counters.  Both are u32 in the source; a run of at most         *)
(* MaxCalls calls keeps them far below 2^32, so the increment never wraps  *)
(* here.                                                                   *)
(***************************************************************************)
SequenceIdIncrWrong(s) == s

\* SequenceId::incr, self.0 += 1
SequenceIdIncr(s) == s + 1

XidNextWrong(x) == x

\* send_request, Xid(self.xid.0 + 1)
XidNext(x) == x + 1

(***************************************************************************)
(* Requests: a primitive op, a vector, a tuple, ReturnSecond.              *)
(***************************************************************************)
Op(name, arg) == [kind |-> "op", name |-> name, arg |-> arg]

Vec(elems) == [kind |-> "vec", elems |-> elems]

Tup(elems) == [kind |-> "tuple", elems |-> elems]

ReturnSecond(a, b) == [kind |-> "rs", elems |-> <<a, b>>]

NoArg == [none |-> TRUE]

RECURSIVE IntoArgArray(_)
RECURSIVE ConcatArgs(_, _)

\* v.extend(v0); v.extend(v1); ... in the order of the elements
ConcatArgs(elems, i) ==
    IF i > Len(elems) THEN <<>>
    ELSE IntoArgArray(elems[i]) \o ConcatArgs(elems, i + 1)

\* CompoundRequest::into_arg_array, the ArgOp array
IntoArgArray(req) ==
    IF req.kind = "op" THEN <<[name |-> req.name, arg |-> req.arg]>>
    ELSE ConcatArgs(req.elems, 1)

RECURSIVE Geometry(_)

\* CompoundRequest::into_arg_array, the Geometry: the shape without the arguments
Geometry(req) ==
    IF req.kind = "op" THEN [kind |-> "op", name |-> req.name]
    ELSE [kind |-> req.kind,
          elems |-> [i \in 1..Len(req.elems) |-> Geometry(req.elems[i])]]

(***************************************************************************)
(* Results.                                                                *)
(***************************************************************************)
Ok(v) == [tag |-> "Ok", val |-> v]

Protocol(e) == [tag |-> "Protocol", err |-> e]

CompoundResponseMismatch(why) == [tag |-> "Mismatch", why |-> why]

SunRpc(e) == [tag |-> "SunRpc", err |-> e]

\* what process_reply hands back: the result and the queue it left
Step(res, rest) == [res |-> res, rest |-> rest]

\* TempResult::from on a per-op StatusResult
TempResult(op) == IF op.status = "Ok" THEN Ok(op.val) ELSE Protocol(op.status)

FromSetAttrStatusResultIgnoringStatus(res) == Ok(res.val)

\* TempResult::from on a SetAttrStatusResult, which carries its SetAttrRes
\* whatever the status
FromSetAttrStatusResult(res) ==
    IF res.status = "Ok" THEN Ok(res.val) ELSE Protocol(res.status)

\* TempResult::from(res), by the type of the op's result
TempResultFrom(op) ==
    IF op.name = "SetAttr" THEN FromSetAttrStatusResult(op) ELSE TempResult(op)

\* compound_op_impl_!'s process_reply for one op
ProcessOpNoCheck(res_array, name) ==
    IF res_array = <<>>
    THEN Step(CompoundResponseMismatch("too few replies"), res_array)
    ELSE Step(TempResultFrom(Head(res_array)), Tail(res_array))

ProcessOp(res_array, name) ==
    IF res_array = <<>>
    THEN Step(CompoundResponseMismatch("too few replies"), res_array)
    ELSE IF Head(res_array).name = name
         THEN Step(TempResultFrom(Head(res_array)), Tail(res_array))
         ELSE Step(CompoundResponseMismatch("expected"), Tail(res_array))

RECURSIVE ProcessReply(_, _)
RECURSIVE ProcessElems(_, _, _, _)

\* the elements of a vector or a tuple in order, stopping at the first error
ProcessElems(res_array, geos, i, acc) ==
    IF i > Len(geos) THEN Step(Ok(acc), res_array)
    ELSE LET s == ProcessReply(res_array, geos[i])
         IN  IF s.res.tag = "Ok"
             THEN ProcessElems(s.rest, geos, i + 1, Append(acc, s.res.val))
             ELSE s

ProcessReturnSecondKeepGoing(res_array, geo) ==
    ProcessReply(ProcessReply(res_array, geo.elems[1]).rest, geo.elems[2])

\* ReturnSecond::process_reply
ProcessReturnSecond(res_array, geo) ==
    LET a == ProcessReply(res_array, geo.elems[1])
    IN  IF a.res.tag = "Ok" THEN ProcessReply(a.rest, geo.elems[2]) ELSE a

\* CompoundRequest::process_reply
ProcessReply(res_array, geo) ==
    CASE geo.kind = "op" -> ProcessOp(res_array, geo.name)
      [] geo.kind = "rs" -> ProcessReturnSecond(res_array, geo)
      [] OTHER -> ProcessElems(res_array, geo.elems, 1, <<>>)

\* ClientWithoutSession::do_compound from the decoded CompoundRes on
CompoundResultNoTrailing(geo, reply) ==
    IF reply.status # "Ok" THEN Protocol(reply.status)
    ELSE ProcessReply(reply.res_array, geo).res

CompoundResultArrayFirst(geo, reply) ==
    LET s == ProcessReply(reply.res_array, geo)
    IN  IF s.res.tag # "Ok" THEN s.res
        ELSE IF reply.status # "Ok" THEN Protocol(reply.status)
        ELSE IF s.rest # <<>> THEN CompoundResponseMismatch("trailing response")
        ELSE s.res

CompoundResult(geo, reply) ==
    IF reply.status # "Ok" THEN Protocol(reply.status)
    ELSE LET s == ProcessReply(reply.res_array, geo)
         IN  IF s.res.tag # "Ok" THEN s.res
             ELSE IF s.rest # <<>>
                  THEN CompoundResponseMismatch("trailing response")
                  ELSE s.res

(***************************************************************************)
(* What the server may put in a reply.                                     *)
(***************************************************************************)
ClientIds == {101, 102}

SessionIds == {"s1", "s2"}

Handles == {"fh1", "fh2"}

StatusErrors == {"NoEnt"}

\* FileAttributeId::SupportedAttrs, MaxRead, MaxWrite
SupportedAttrsId == 0

MaxReadId == 30

MaxWriteId == 31

AttrSet(s) == [type |-> "set", v |-> s]

AttrU64(n) == [type |-> "u64", v |-> n]

\* object_attributes the server may return for the handshake GetAttr: complete
\* ones, one without SupportedAttrs, one without MaxWrite, one whose MaxRead
\* has another value type
AttrReplies ==
    { (SupportedAttrsId :> AttrSet({0, 4, 48}))
        @@ (MaxReadId :> AttrU64(2)) @@ (MaxWriteId :> AttrU64(1)),
      (SupportedAttrsId :> AttrSet({0, 1, 4, 54}))
        @@ (MaxReadId :> AttrU64(1)) @@ (MaxWriteId :> AttrU64(2)),
      (MaxReadId :> AttrU64(1)) @@ (MaxWriteId :> AttrU64(2)),
      (SupportedAttrsId :> AttrSet({0, 4}))
        @@ (MaxReadId :> AttrU64(1)),
      (SupportedAttrsId :> AttrSet({0, 4}))
        @@ (MaxReadId :> AttrSet({4})) @@ (MaxWriteId :> AttrU64(2)) }

NoVal == [none |-> TRUE]

\* the values an Ok result of each op may carry
OkVals(name) ==
    CASE name = "ExchangeId" -> {[client_id |-> c] : c \in ClientIds}
      [] name = "CreateSession" -> {[session_id |-> s] : s \in SessionIds}
      [] name = "GetAttr" -> {[object_attributes |-> a] : a \in AttrReplies}
      [] name = "GetFh" -> {[object |-> h] : h \in Handles}
      [] name = "Read" -> {[eof |-> TRUE, data |-> <<>>]}
      [] OTHER -> {NoVal}

ResOk(name, v) == [name |-> name, status |-> "Ok", val |-> v]

ResErr(name, e) == [name |-> name, status |-> e, val |-> NoVal]

DefaultOk(name) == ResOk(name, CHOOSE v \in OkVals(name) : TRUE)

\* every op answered Ok, the last one with value v
AllOk(args, v) ==
    [i \in 1..Len(args) |->
        IF i = Len(args) THEN ResOk(args[i].name, v) ELSE DefaultOk(args[i].name)]

CompoundRes(status, res_array) ==
    [rpc |-> "Success", status |-> status, res_array |-> res_array, extra |-> FALSE]

\* replies of a conforming server: all ops Ok, or the ops up to and including
\* the first failing one with its error as the overall status
ConformingReplies(args) ==
    LET n == Len(args)
    IN  {CompoundRes("Ok", AllOk(args, v)) : v \in OkVals(args[n].name)}
        \cup {CompoundRes(e, [i \in 1..k |->
                    IF i = k THEN ResErr(args[i].name, e) ELSE DefaultOk(args[i].name)])
                : e \in StatusErrors, k \in 1..n}

\* replies no conforming server sends but the client may receive
OtherCompoundReplies(args) ==
    LET n == Len(args)
        ok == AllOk(args, CHOOSE v \in OkVals(args[n].name) : TRUE)
    IN  {CompoundRes("Ok", SubSeq(ok, 1, n - 1)),
         CompoundRes("Ok", Append(ok, ok[n])),
         CompoundRes("Access", ok),
         CompoundRes("Access", <<>>)}
        \cup {CompoundRes("Ok", [ok EXCEPT ![k] = ResOk("Illegal", NoVal)]) : k \in 1..n}
        \cup {CompoundRes("Ok", [ok EXCEPT ![k] = ResErr(args[k].name, "Access")]) : k \in 1..n}

\* a reply message that is not an accepted Success
RpcFailures ==
    {"ProgramUnavailable", "ProgramMismatch", "ProcedureUnavailable",
     "GarbageArguments", "SystemError", "Denied", "Call", "Undecodable"}

RpcFailureReplies ==
    {[rpc |-> r, status |-> "Ok", res_array |-> <<>>, extra |-> FALSE] : r \in RpcFailures}

\* a fragment that announces more bytes than its message takes
OverlongReplies(args) ==
    {[r EXCEPT !.extra = TRUE] :
        r \in {CompoundRes("Ok", AllOk(args, CHOOSE v \in OkVals(args[Len(args)].name) : TRUE)),
               CompoundRes("NoEnt", <<ResErr(args[1].name, "NoEnt")>>)}}

Replies(args) ==
    ConformingReplies(args) \cup OtherCompoundReplies(args)
        \cup RpcFailureReplies \cup OverlongReplies(args)

(***************************************************************************)
(* The requests the client builds.                                         *)
(***************************************************************************)
\* Client::new, the ExchangeId COMPOUND
ExchangeIdRequest ==
    Op("ExchangeId", [flags |-> 0, state_protect |-> "None", client_impl_id |-> "None"])

\* Client::new, the CreateSession COMPOUND
CreateSessionRequest(cid) ==
    Op("CreateSession", [client_id |-> cid, sequence_id |-> 1])

\* Client::new, the ReclaimComplete + PutRootFh + GetAttr COMPOUND
RootAttrsRequest ==
    ReturnSecond(Tup(<<Op("ReclaimComplete", [one_fs |-> FALSE]), Op("PutRootFh", NoArg)>>),
                 Op("GetAttr", [attr_request |-> {SupportedAttrsId, MaxReadId, MaxWriteId}]))

\* the SequenceArgs of Client::do_compound
SequenceArgsStale(sid, seq) ==
    [session_id |-> sid, sequence_id |-> 1, slot_id |-> 0,
     highest_slot_id |-> 0, cache_this |-> FALSE]

SequenceArgs(sid, seq) ==
    [session_id |-> sid, sequence_id |-> seq, slot_id |-> 0,
     highest_slot_id |-> 0, cache_this |-> FALSE]

\* Client::do_compound: ReturnSecond(sequence, args)
WithSequence(sid, seq, args) == ReturnSecond(Op("Sequence", SequenceArgs(sid, seq)), args)

\* paths, as the components std::path::Path::components gives: "/" and "/a"
RootDir == [kind |-> "RootDir"]

Normal(name) == [kind |-> "Normal", name |-> name]

Paths == {<<RootDir>>, <<RootDir, Normal("a")>>}

LookUpsButLast(path) ==
    LET normal == SelectSeq(path, LAMBDA c : c.kind = "Normal")
    IN  [i \in 1..(Len(normal) - 1) |-> Op("LookUp", [object_name |-> normal[i].name])]

\* the filter_map over the components: one LookUp per normal component
RECURSIVE LookUps(_)
LookUps(path) ==
    IF path = <<>> THEN <<>>
    ELSE IF Head(path).kind = "Normal"
         THEN <<Op("LookUp", [object_name |-> Head(path).name])>> \o LookUps(Tail(path))
         ELSE LookUps(Tail(path))

LookUpRequestNoLookUps(path) ==
    ReturnSecond(Tup(<<Op("PutRootFh", NoArg), Vec(<<>>)>>), Op("GetFh", NoArg))

LookUpRequestEveryComponent(path) ==
    ReturnSecond(Tup(<<Op("PutRootFh", NoArg),
                       Vec([i \in 1..Len(path) |->
                                Op("LookUp", [object_name |->
                                    IF path[i].kind = "Normal" THEN path[i].name
                                    ELSE path[i].kind])])>>),
                 Op("GetFh", NoArg))

\* Client::look_up
LookUpRequest(path) ==
    ReturnSecond(Tup(<<Op("PutRootFh", NoArg), Vec(LookUps(path))>>), Op("GetFh", NoArg))

\* Client::read
ReadRequest(handle, offset, count) ==
    ReturnSecond(Op("PutFh", [object |-> handle]),
                 Op("Read", [state_id |-> 0, offset |-> offset, count |-> count]))

\* the requests of the public methods a caller may invoke on a ready Client
MethodRequests ==
    {LookUpRequest(p) : p \in Paths}
        \cup {ReadRequest("fh1", 0, max_read)}

(***************************************************************************)
(* The state after the caller has entered Client::new: RpcClient::new(NFS) *)
(* has run and nothing has been sent.                                      *)
(***************************************************************************)
NoClient == 0

\* the variables of the other specifications, at rest
CodecUnused == stage = "none" /\ value = NoVal /\ wire = <<>> /\ back = NoVal

LoopUnused ==
    /\ pc = "none"
    /\ file_offset = 0
    /\ amount_read = 0
    /\ buf = <<>>
    /\ source = <<>>
    /\ consumed = <<>>
    /\ sink = <<>>
    /\ file = <<>>
    /\ ops = <<>>

FsUnused ==
    /\ client_owner = <<>>
    /\ fs = NoVal
    /\ calls = <<>>
    /\ cookie = 0
    /\ entries = <<>>

Init ==
    /\ phase = "ExchangeId"
    /\ io = "idle"
    /\ cur = NoVal
    /\ xid = 1
    /\ sequence_id = NoClient
    /\ session = "none"
    /\ client_id = NoClient
    /\ max_read = 0
    /\ max_write = 0
    /\ supported_attrs = {}
    /\ sent = <<>>
    /\ answered = 0
    /\ rx = <<>>
    /\ aligned = TRUE
    /\ results = <<>>
    /\ last = NoVal
    /\ got = NoVal
    /\ ncalls = 0
    /\ nraw = 0
    /\ CodecUnused
    /\ LoopUnused
    /\ FsUnused

(***************************************************************************)
(* Client::new's use of the handshake GetAttr reply.                       *)
(***************************************************************************)
\* EnumMap::get_as / remove_as followed by unwrap(): the value, when the key is
\* there and its value is of the wanted type
HasAs(attrs, key, type) == key \in DOMAIN attrs /\ attrs[key].type = type

\* the three unwrap() calls of Client::new succeed
RootAttrsUsable(attrs) ==
    /\ HasAs(attrs, SupportedAttrsId, "set")
    /\ HasAs(attrs, MaxReadId, "u64")
    /\ HasAs(attrs, MaxWriteId, "u64")

\* client.supported_attrs = root_attrs.remove_as(SupportedAttrs).unwrap()
RecordedSupportedAttrs(attrs) == attrs[SupportedAttrsId].v

\* client.max_read = *root_attrs.get_as(MaxRead).unwrap()
RecordedMaxRead(attrs) == attrs[MaxReadId].v

RecordedMaxWriteSwapped(attrs) == attrs[MaxReadId].v

\* client.max_write = *root_attrs.get_as(MaxWrite).unwrap()
RecordedMaxWrite(attrs) == attrs[MaxWriteId].v

IsOk(res) == res.tag = "Ok"

PhaseAfterIgnoringErrors(res) ==
    CASE phase = "ExchangeId" -> "CreateSession"
      [] phase = "CreateSession" -> IF IsOk(res) THEN "RootAttrs" ELSE "new_err"
      [] phase = "RootAttrs" ->
            IF ~IsOk(res) THEN "new_err"
            ELSE IF RootAttrsUsable(res.val.object_attributes) THEN "ready"
            ELSE "new_panic"
      [] OTHER -> phase

\* where the caller is after the do_compound of this phase returned res
PhaseAfter(res) ==
    CASE phase = "ExchangeId" -> IF IsOk(res) THEN "CreateSession" ELSE "new_err"
      [] phase = "CreateSession" -> IF IsOk(res) THEN "RootAttrs" ELSE "new_err"
      [] phase = "RootAttrs" ->
            IF ~IsOk(res) THEN "new_err"
            ELSE IF RootAttrsUsable(res.val.object_attributes) THEN "ready"
            ELSE "new_panic"
      [] OTHER -> phase

\* what the caller does with the result of the do_compound of this phase, the
\* sequence counter apart
Conclude(res) ==
    /\ results' = Append(results, res.tag)
    /\ last' = res
    /\ io' = "idle"
    /\ phase' = PhaseAfter(res)
    /\ client_id' =
         IF phase = "ExchangeId" /\ IsOk(res) THEN res.val.client_id ELSE client_id
    /\ session' =
         IF phase = "CreateSession" /\ IsOk(res) THEN res.val.session_id ELSE session
    /\ IF phase = "RootAttrs" /\ PhaseAfter(res) = "ready"
       THEN /\ supported_attrs' = RecordedSupportedAttrs(res.val.object_attributes)
            /\ max_read' = RecordedMaxRead(res.val.object_attributes)
            /\ max_write' = RecordedMaxWrite(res.val.object_attributes)
       ELSE UNCHANGED <<supported_attrs, max_read, max_write>>

(***************************************************************************)
(* RpcClient::send_request and the part of do_compound before it.          *)
(***************************************************************************)
COMPOUND_PROCEDURE == 1

\* the call message send_request serializes
CallMessage(x, args) == [xid |-> x, procedure |-> COMPOUND_PROCEDURE, args |-> args]

\* the request of the phase the caller is in, and whether it goes through
\* Client::do_compound (the session client) or the raw client
PhaseRequests ==
    CASE phase = "ExchangeId" -> {ExchangeIdRequest}
      [] phase = "CreateSession" -> {CreateSessionRequest(client_id)}
      [] phase = "RootAttrs" -> {RootAttrsRequest}
      [] phase = "ready" -> MethodRequests
      [] OTHER -> {}

ThroughSession == phase \in {"RootAttrs", "ready"}

Wrapped(req) ==
    IF ThroughSession THEN WithSequence(session, sequence_id, req) ELSE req

\* do_compound up to the blocking read: the Sequence op is built, the counter
\* incremented, the message written and the xid incremented
SendOk(req) ==
    /\ sent' = Append(sent, CallMessage(xid, IntoArgArray(Wrapped(req))))
    /\ xid' = XidNext(xid)
    /\ io' = "await"
    /\ cur' = Geometry(Wrapped(req))
    /\ sequence_id' = IF ThroughSession THEN SequenceIdIncr(sequence_id) ELSE sequence_id
    /\ UNCHANGED <<phase, results, last, got, client_id, session, supported_attrs, max_read,
                   max_write, answered, rx, aligned>>

\* transport.write_all fails: send_request returns the error before the xid
\* is incremented, and do_compound returns it
SendFail(req) ==
    /\ Conclude(SunRpc("Io"))
    /\ cur' = Geometry(Wrapped(req))
    /\ got' = NoVal
    /\ sequence_id' = IF ThroughSession THEN SequenceIdIncr(sequence_id) ELSE sequence_id
    /\ UNCHANGED <<xid, sent, answered, rx, aligned>>

Send ==
    /\ io = "idle"
    /\ nraw < MaxCalls
    /\ nraw' = nraw + 1
    /\ ncalls' = IF ThroughSession THEN ncalls + 1 ELSE ncalls
    /\ \E req \in PhaseRequests : SendOk(req) \/ SendFail(req)
    /\ UNCHANGED <<codecVars, loopVars, fsVars>>

(***************************************************************************)
(* The server answers the oldest unanswered call.  It is taken to write    *)
(* while the client is reading and has nothing left to read: the client    *)
(* sees the same replies in the same order whenever they are written.      *)
(***************************************************************************)
ServerReply ==
    /\ answered < Len(sent)
    /\ io = "await"
    /\ rx = <<>>
    /\ \E r \in Replies(sent[answered + 1].args) : rx' = Append(rx, r)
    /\ answered' = answered + 1
    /\ UNCHANGED <<phase, io, cur, xid, sequence_id, session, client_id, max_read,
                   max_write, supported_attrs, sent, aligned, results, last, got,
                   ncalls, nraw>>
    /\ UNCHANGED <<codecVars, loopVars, fsVars>>

(***************************************************************************)
(* RpcClient::receive_reply and the rest of do_compound.                   *)
(***************************************************************************)
\* receive_reply's match on the decoded message
ReplyResult(geo, r) ==
    CASE r.rpc = "Success" -> CompoundResult(geo, r)
      [] r.rpc = "Undecodable" -> SunRpc("Deseralization")
      [] r.rpc \in {"Denied", "Call"} -> SunRpc("UnexpectedReply")
      [] OTHER -> SunRpc(r.rpc)

\* the read fails (a timeout, a closed connection) before any byte of a reply
\* has arrived
RecvIo ==
    /\ rx = <<>>
    /\ Conclude(SunRpc("Io"))
    /\ got' = NoVal
    /\ UNCHANGED <<rx, aligned>>

AtBoundaryAfterStoppingAtStatus(r) ==
    ~r.extra /\ r.rpc # "Undecodable" /\ r.status = "Ok"

\* where receive_reply leaves the stream: it reads the header and then what the
\* decoding of the message takes from the announced bytes; a message that
\* decodes takes all of itself (CompoundRes: status, tag and the whole
\* res_array, whatever the status), one that does not decode stops inside
AtBoundaryAfter(r) == ~r.extra /\ r.rpc # "Undecodable"

\* a fragment is read from a stream positioned at its header
RecvReply ==
    /\ aligned
    /\ rx # <<>>
    /\ Conclude(ReplyResult(cur, Head(rx)))
    /\ got' = Head(rx)
    /\ rx' = Tail(rx)
    /\ aligned' = AtBoundaryAfter(Head(rx))

\* the stream is not at a fragment header: what is read does not decode
RecvMisaligned ==
    /\ ~aligned
    /\ Conclude(SunRpc("Deseralization"))
    /\ got' = NoVal
    /\ UNCHANGED <<rx, aligned>>

\* Client::new builds the Client, sequence_id: SequenceId(1), once CreateSession
\* has succeeded; no other reply touches the counter
Recv ==
    /\ io = "await"
    /\ (RecvIo \/ RecvReply \/ RecvMisaligned)
    /\ sequence_id' = IF phase = "CreateSession" /\ phase' = "RootAttrs"
                      THEN 1 ELSE sequence_id
    /\ UNCHANGED <<cur, xid, sent, answered, ncalls, nraw>>
    /\ UNCHANGED <<codecVars, loopVars, fsVars>>

Next == Send \/ ServerReply \/ Recv

Spec == Init /\ [][Next]_vars

(***************************************************************************)
(* The COMPOUND engine on its own: ClientWithoutSession::do_compound on    *)
(* any composition of requests, against any reply a server may send.       *)
(***************************************************************************)
EngineOps == {"PutFh", "LookUp", "GetFh"}

Prims == {Op(n, NoArg) : n \in EngineOps}

LookUpVec(n) == Vec([i \in 1..n |-> Op("LookUp", NoArg)])

\* primitive requests, vectors, tuples of two and three, ReturnSecond, and the
\* nestings the methods use
EngineRequests ==
    Prims
        \cup {LookUpVec(n) : n \in 0..MaxVec}
        \cup {Tup(<<a, b>>) : a \in Prims, b \in Prims}
        \cup {ReturnSecond(a, b) : a \in Prims, b \in Prims}
        \cup {Tup(<<Op("PutFh", NoArg), LookUpVec(n), Op("GetFh", NoArg)>>) : n \in 0..(MaxVec - 1)}
        \cup {ReturnSecond(Tup(<<Op("PutFh", NoArg), LookUpVec(n)>>), Op("GetFh", NoArg))
                : n \in 0..(MaxVec - 1)}
        \cup {Vec([i \in 1..n |-> Tup(<<Op("PutFh", NoArg), Op("GetFh", NoArg)>>)])
                : n \in 1..(MaxVec - 1)}

\* any reply of up to n + 1 ops: each op of any operation and Ok or failed; the
\* value of the i-th op is i, so that a result shows which op it came from
EngineReplies(n) ==
    UNION {
        {CompoundRes(st, [i \in 1..k |->
                IF f[i][2] = "Ok" THEN ResOk(f[i][1], i)
                ELSE [name |-> f[i][1], status |-> f[i][2], val |-> 0]])
            : st \in {"Ok", "NoEnt"}, f \in [1..k -> EngineOps \X {"Ok", "Access"}]}
        : k \in 0..(n + 1)}

InitEngine ==
    /\ phase = "engine"
    /\ io = "idle"
    /\ cur = NoVal
    /\ xid = 1
    /\ sequence_id = NoClient
    /\ session = "none"
    /\ client_id = NoClient
    /\ max_read = 0
    /\ max_write = 0
    /\ supported_attrs = {}
    /\ sent = <<>>
    /\ answered = 0
    /\ rx = <<>>
    /\ aligned = TRUE
    /\ results = <<>>
    /\ last = NoVal
    /\ got = NoVal
    /\ ncalls = 0
    /\ nraw = 0
    /\ CodecUnused
    /\ LoopUnused
    /\ FsUnused

EngineSend ==
    /\ io = "idle"
    /\ nraw = 0
    /\ nraw' = 1
    /\ UNCHANGED ncalls
    /\ \E req \in EngineRequests : SendOk(req)
    /\ UNCHANGED <<codecVars, loopVars, fsVars>>

EngineReply ==
    /\ answered < Len(sent)
    /\ io = "await"
    /\ \E r \in EngineReplies(Len(sent[answered + 1].args)) : rx' = <<r>>
    /\ answered' = answered + 1
    /\ UNCHANGED <<phase, io, cur, xid, sequence_id, session, client_id, max_read,
                   max_write, supported_attrs, sent, aligned, results, last, got,
                   ncalls, nraw>>
    /\ UNCHANGED <<codecVars, loopVars, fsVars>>

EngineRecv ==
    /\ io = "await"
    /\ RecvReply
    /\ UNCHANGED <<cur, sequence_id, xid, sent, answered, ncalls, nraw>>
    /\ UNCHANGED <<codecVars, loopVars, fsVars>>

NextEngine == EngineSend \/ EngineReply \/ EngineRecv

SpecCompound == InitEngine /\ [][NextEngine]_vars

(***************************************************************************)
(* Properties of the session client, checked under Spec.                   *)
(***************************************************************************)
Names(args) == [i \in 1..Len(args) |-> args[i].name]

Failed(tag) == \E i \in 1..Len(results) : results[i] = tag

\* C1: once the Client exists its sequence_id is 1 plus the number of calls made
\* to Client::do_compound, whatever the outcome of each call: every call
\* advances it by exactly 1 and nothing else moves it.
C1_SequenceIdAdvancesPerCall ==
    sequence_id # NoClient => sequence_id = 1 + ncalls

\* a ready client after three session calls, of which one failed with a response
\* mismatch and one in the transport
C1_Witness ==
    /\ phase = "ready"
    /\ ncalls = 3
    /\ sequence_id = 4
    /\ Len(results) = 5
    /\ results[4] = "Mismatch"
    /\ results[5] = "SunRpc"

SequenceOf(m) == m.args[1].arg.sequence_id

\* C2: every COMPOUND written by the session client (the third message on) starts
\* with a Sequence op carrying the stored session id, slot 0, highest slot 0,
\* cache_this false and the counter value before the call's increment, which is
\* the ordinal of the call; the sequence ids written strictly increase, and
\* the k-th such message carries k as long as no call failed.
C2_SequenceOpLeadsEveryCompound ==
    \A i \in 3..Len(sent) :
        /\ sent[i].args[1].name = "Sequence"
        /\ sent[i].args[1].arg.session_id = session
        /\ session \in SessionIds
        /\ sent[i].args[1].arg.slot_id = 0
        /\ sent[i].args[1].arg.highest_slot_id = 0
        /\ sent[i].args[1].arg.cache_this = FALSE
        /\ (i = Len(sent) /\ io = "await" =>
                SequenceOf(sent[i]) = ncalls /\ SequenceOf(sent[i]) = sequence_id - 1)
        /\ \A j \in 3..(i - 1) : SequenceOf(sent[j]) < SequenceOf(sent[i])
        /\ (~Failed("SunRpc") => SequenceOf(sent[i]) = i - 2)

C2_Witness ==
    /\ Len(sent) = 5
    /\ io = "await"
    /\ session = "s2"
    /\ SequenceOf(sent[3]) = 1
    /\ SequenceOf(sent[4]) = 2
    /\ SequenceOf(sent[5]) = 3

\* C3: the first three messages are ExchangeId alone, CreateSession alone with
\* the client id of the ExchangeId reply, and Sequence + ReclaimComplete +
\* PutRootFh + GetAttr; each is sent only after the steps before it succeeded,
\* no message starts with Sequence before CreateSession succeeded, Client::new
\* sends nothing more, and a failed step ends Client::new with that error.
C3_HandshakeOrder ==
    /\ Len(sent) >= 1 => Names(sent[1].args) = <<"ExchangeId">>
    /\ Len(sent) >= 2 =>
            /\ Names(sent[2].args) = <<"CreateSession">>
            /\ results[1] = "Ok"
            /\ sent[2].args[1].arg.client_id \in ClientIds
            /\ Len(results) = 1 =>
                    sent[2].args[1].arg.client_id = got.res_array[1].val.client_id
    /\ Len(sent) >= 3 =>
            /\ Names(sent[3].args) = <<"Sequence", "ReclaimComplete", "PutRootFh", "GetAttr">>
            /\ results[1] = "Ok"
            /\ results[2] = "Ok"
    /\ \A i \in 1..Len(sent) : sent[i].args[1].name = "Sequence" => i >= 3
    /\ phase # "ready" => Len(sent) <= 3
    /\ phase = "ready" /\ nraw = 3 => Len(sent) = 3 /\ last.tag = "Ok"
    /\ phase = "new_err" =>
            /\ last.tag # "Ok"
            /\ results[Len(results)] # "Ok"
            /\ \A i \in 1..(Len(results) - 1) : results[i] = "Ok"
            /\ Len(sent) <= Len(results)
            /\ Len(results) <= 3

\* Client::new has just returned Ok
C3_Witness ==
    /\ phase = "ready"
    /\ Len(results) = 3
    /\ Len(sent) = 3
    /\ last.tag = "Ok"

GetAttrOf(reply) == reply.res_array[Len(reply.res_array)].val.object_attributes

C4_RecordedFromReplies ==
    /\ phase = "CreateSession" /\ Len(results) = 1 =>
            client_id = got.res_array[1].val.client_id
    /\ phase = "RootAttrs" /\ Len(results) = 2 =>
            session = got.res_array[1].val.session_id
    /\ phase = "ready" /\ Len(results) = 3 =>
            /\ got.res_array[4].name = "GetAttr"
            /\ supported_attrs = GetAttrOf(got)[SupportedAttrsId].v
            /\ max_read = GetAttrOf(got)[MaxReadId].v
            /\ max_write = GetAttrOf(got)[MaxWriteId].v

\* C4: when Client::new returns Ok the recorded supported_attrs, max_read and
\* max_write are those of the handshake GetAttr reply, the client id and the
\* session id are those of the ExchangeId and CreateSession replies, and no
\* later COMPOUND changes any of them.
C4_HandshakeValuesKept ==
    /\ []C4_RecordedFromReplies
    /\ [][phase = "ready" =>
            UNCHANGED <<supported_attrs, max_read, max_write, client_id, session>>]_vars

\* two more COMPOUNDs, one of them failed, after a handshake whose GetAttr reply
\* gave max_read 2 and max_write 1
C4_Witness ==
    /\ phase = "ready"
    /\ Len(results) = 5
    /\ results[4] = "Protocol"
    /\ max_read = 2
    /\ max_write = 1
    /\ supported_attrs = {0, 4, 48}
    /\ client_id = 102
    /\ session = "s2"

\* C10: the xid starts at 1, the k-th call message written carries xid k, and
\* the next xid is one more than the number of messages written; so no two
\* messages carry the same xid.
C10_XidOfKthCall ==
    /\ xid = Len(sent) + 1
    /\ \A k \in 1..Len(sent) : sent[k].xid = k

\* four messages written by five calls: one call failed to write
C10_Witness ==
    /\ Len(sent) = 4
    /\ nraw = 5
    /\ sent[4].xid = 4

\* the reply the last call read came from a server that frames each message
\* in one fragment of exactly its length
ExactlyFramed(r) == ~r.extra

C8_AfterOpError ==
    /\ phase = "ready" /\ io = "idle" /\ last.tag = "Protocol" /\ nraw >= 4 =>
            /\ got # NoVal
            /\ rx = <<>>
            /\ ExactlyFramed(got) => aligned
            /\ sequence_id = 1 + ncalls
            /\ xid = 1 + Len(sent)
            /\ nraw < MaxCalls => ENABLED Send
    /\ phase = "ready" /\ io = "await" /\ results[Len(results)] = "Protocol"
        /\ Len(results) >= 4 =>
            SequenceOf(sent[Len(sent)]) = SequenceOf(sent[Len(sent) - 1]) + 1

C8_OpErrorStep ==
    (phase = "ready" /\ io = "await" /\ io' = "idle" /\ last'.tag = "Protocol") =>
        /\ phase' = "ready"
        /\ rx' = Tail(rx)
        /\ UNCHANGED <<session, client_id, max_read, max_write, supported_attrs,
                       sequence_id, xid, sent>>

\* C8: a COMPOUND of a ready client that fails with an NFS status error has read
\* its whole reply: the stream is at the next fragment header when the reply
\* was one fragment of exactly its length; the reply changed nothing of the
\* client but the result, the two counters having advanced by one at the send;
\* and the client can send the next COMPOUND, which carries the next sequence id.
C8_SessionUsableAfterOpError ==
    /\ []C8_AfterOpError
    /\ [][C8_OpErrorStep]_vars

\* a COMPOUND whose reply failed at its last op, followed by one that succeeded
\* with the next sequence id
C8_Witness ==
    /\ phase = "ready"
    /\ io = "idle"
    /\ results = <<"Ok", "Ok", "Ok", "Protocol", "Ok">>
    /\ SequenceOf(sent[5]) = SequenceOf(sent[4]) + 1
    /\ aligned

\* call messages written and not yet matched by a reply read
Awaiting == Len(sent) - (answered - Len(rx))

NumFailed(tag) == Cardinality({i \in 1..Len(results) : results[i] = tag})

C9_Order ==
    /\ Len(sent) <= nraw
    /\ Len(sent) >= nraw - NumFailed("SunRpc")
    /\ \A i \in 1..Len(sent) : \A j \in 1..Len(sent) : i < j => sent[i] # sent[j]
    /\ \A i \in 3..Len(sent) : \A j \in 3..Len(sent) :
            i < j => SequenceOf(sent[i]) < SequenceOf(sent[j])

C9_Step ==
    /\ Len(sent') # Len(sent) =>
            Len(sent') = Len(sent) + 1 /\ io = "idle" /\ io' = "await" /\ nraw' = nraw + 1
    /\ rx' # rx /\ answered' = answered =>
            rx' = Tail(rx) /\ io = "await" /\ io' = "idle" /\ got' = Head(rx)
    /\ nraw' # nraw => io = "idle" /\ nraw' = nraw + 1

\* what holds of every run: a call writes at most one message (none when the
\* write fails) when it starts and reads at most one reply, the oldest unread
\* one, before it returns; messages are written in call order, none twice
C9_OneWriteOneReadPerCall ==
    /\ []C9_Order
    /\ [][C9_Step]_vars

\* C9: requests leave in call order, none is sent twice, and there is never
\* more than one request awaiting a reply.
C9_OneInFlight ==
    /\ C9_Order
    /\ Awaiting <= 1

\* the read of the fourth call failed in the transport; the fifth call then
\* took the reply to the fourth request for its own and returned Ok
C9_LateReplyTaken ==
    /\ results = <<"Ok", "Ok", "Ok", "SunRpc", "Ok">>
    /\ Len(sent) = 5
    /\ answered = 4
    /\ rx = <<>>
    /\ io = "idle"

(***************************************************************************)
(* The compound engine, under SpecCompound: one request, one reply.        *)
(***************************************************************************)
\* the one call of a run of SpecCompound has returned, having read a reply
Returned == io = "idle" /\ results # <<>> /\ got # NoVal

RECURSIVE Size(_)
RECURSIVE SizeUpTo(_, _)

\* ops of the first i elements
SizeUpTo(elems, i) ==
    IF i = 0 THEN 0 ELSE SizeUpTo(elems, i - 1) + Size(elems[i])

\* ops a request of this shape puts in the argument array
Size(geo) == IF geo.kind = "op" THEN 1 ELSE SizeUpTo(geo.elems, Len(geo.elems))

RECURSIVE ValueAt(_, _, _)

\* the value a request of this shape stands for when its ops are answered by
\* arr[off + 1], arr[off + 2], ...: an op its result, a vector and a tuple the
\* values of their elements in order, ReturnSecond the value of its second
ValueAt(geo, off, arr) ==
    CASE geo.kind = "op" -> arr[off + 1].val
      [] geo.kind = "rs" -> ValueAt(geo.elems[2], off + Size(geo.elems[1]), arr)
      [] OTHER -> [i \in 1..Len(geo.elems) |->
                      ValueAt(geo.elems[i], off + SizeUpTo(geo.elems, i - 1), arr)]

\* C5: do_compound returns Ok(r) only if the overall status is Ok, the response
\* array has as many ops as the request, each of the operation of the request
\* op at its position and with status Ok; r is then assembled from the ops'
\* results in request order: a tuple from its elements' values in order, a
\* vector with as many elements as the request vector.
C5_OkOnlyWhenEveryOpMatches ==
    Returned /\ last.tag = "Ok" =>
        /\ got.rpc = "Success"
        /\ got.status = "Ok"
        /\ Len(got.res_array) = Len(sent[1].args)
        /\ Len(sent[1].args) = Size(cur)
        /\ \A i \in 1..Len(got.res_array) :
                /\ got.res_array[i].name = sent[1].args[i].name
                /\ got.res_array[i].status = "Ok"
        /\ last.val = ValueAt(cur, 0, got.res_array)

\* (PutFh, [LookUp], GetFh) answered op by op: the tuple of the three values,
\* the middle one a vector of one
C5_Witness ==
    /\ Returned
    /\ cur.kind = "tuple"
    /\ Len(cur.elems) = 3
    /\ last.tag = "Ok"
    /\ last.val = <<1, <<2>>, 3>>

\* ops at the head of both arrays that agree in operation
RECURSIVE Agree(_, _)
Agree(res_array, args) ==
    IF res_array = <<>> \/ args = <<>> \/ Head(res_array).name # Head(args).name
    THEN 0
    ELSE 1 + Agree(Tail(res_array), Tail(args))

Deviates == Names(got.res_array) # Names(sent[1].args)

\* C6 as claimed: with overall status Ok, a response array that is not the
\* expected sequence of operations always gives CompoundResponseMismatch.
C6_AnyDeviationIsMismatch ==
    Returned /\ got.rpc = "Success" /\ got.status = "Ok" /\ Deviates =>
        last.tag = "Mismatch"

\* C6, amended: with overall status Ok and a response array that is not the
\* expected sequence of operations (an op of another operation, too few ops, or
\* ops left over), do_compound fails: with CompoundResponseMismatch when every
\* op before the first deviation has status Ok, and otherwise with the Protocol
\* error of the first of those ops that has not.
C6_DeviationFails ==
    Returned /\ got.rpc = "Success" /\ got.status = "Ok" /\ Deviates =>
        LET d == Agree(got.res_array, sent[1].args)
            bad == {i \in 1..d : got.res_array[i].status # "Ok"}
        IN  IF bad = {}
            THEN last.tag = "Mismatch"
            ELSE \E i \in bad :
                    /\ \A j \in bad : i <= j
                    /\ last = Protocol(got.res_array[i].status)

\* every expected op answered with status Ok, and one op more
C6_Witness ==
    /\ Returned
    /\ got.rpc = "Success"
    /\ got.status = "Ok"
    /\ Len(got.res_array) = Len(sent[1].args) + 1
    /\ Agree(got.res_array, sent[1].args) = Len(sent[1].args)
    /\ last = CompoundResponseMismatch("trailing response")

\* C7: a reply whose overall status is an error gives Protocol(that error),
\* whatever its response array holds.
C7_OverallErrorIsProtocol ==
    Returned /\ got.rpc = "Success" /\ got.status # "Ok" =>
        last = Protocol(got.status)

\* an overall error with a response array that is too long, of other operations
\* and with an op error of its own
C7_Witness ==
    /\ Returned
    /\ got.rpc = "Success"
    /\ got.status = "NoEnt"
    /\ Len(sent[1].args) >= 1
    /\ Len(got.res_array) > Len(sent[1].args)
    /\ got.res_array[1].name # sent[1].args[1].name
    /\ got.res_array[1].status = "Access"
    /\ last = Protocol("NoEnt")

(***************************************************************************)
(* Record framing, under SpecFraming: send_request frames a serialized     *)
(* message, receive_reply reads a frame.                                   *)
(*                                                                         *)
(* The fragment header is a u32 in the source: 4 bytes, bit 31 the         *)
(* last-fragment flag, the low 31 bits the length.  A message of 2^31      *)
(* bytes, where `as u32 | 0x1 << 31` stops being the length, is out of     *)
(* reach of the model checker, so the model keeps the layout and the       *)
(* arithmetic with a header of HeaderBytes bytes: the flag is the top bit, *)
(* the length the bits below it.                                           *)
(***************************************************************************)
\* message bytes of the short messages
MaxMsgLen == 5

HeaderBytes == 2

RECURSIVE Pow256(_)
Pow256(k) == IF k = 0 THEN 1 ELSE 256 * Pow256(k - 1)

\* one more than the largest header: the u32 modulus of the source
HeaderMod == Pow256(HeaderBytes)

\* 0x1 << 31 of the source: the top bit of the header
FinalBit == HeaderMod \div 2

\* serde_xdr's u32: big-endian bytes
ToBigEndian(n, k) == [i \in 1..k |-> (n \div Pow256(k - i)) % 256]

RECURSIVE FromBigEndian(_)
FromBigEndian(bytes) ==
    IF bytes = <<>> THEN 0
    ELSE 256 * FromBigEndian(SubSeq(bytes, 1, Len(bytes) - 1)) + bytes[Len(bytes)]

FragmentHeaderNotFinal(len) == len % HeaderMod

\* (serialized.len() - 4) as u32 | 0x1 << 31
FragmentHeader(len) ==
    LET low == len % HeaderMod
    IN  IF low >= FinalBit THEN low ELSE low + FinalBit

\* send_request from the serialized message to the bytes handed to write_all
Frame(b) == ToBigEndian(FragmentHeader(Len(b)), HeaderBytes) \o b

\* fragment_header & !(0x1 << 31)
FragmentLength(header) == header % FinalBit

\* receive_reply up to the decoder: the header, then at most length bytes
Unframe(bytes) ==
    LET header == FromBigEndian(SubSeq(bytes, 1, HeaderBytes))
        length == FragmentLength(header)
        rest == SubSeq(bytes, HeaderBytes + 1, Len(bytes))
    IN  IF Len(rest) <= length THEN rest ELSE SubSeq(rest, 1, length)

MessageBytes == {0, 255}

\* serialized messages: every short one, and three around the length at which
\* the header's length bits run out
Messages ==
    UNION {[1..n -> MessageBytes] : n \in 0..MaxMsgLen}
        \cup {[i \in 1..n |-> 0] : n \in {FinalBit - 1, FinalBit, FinalBit + 1}}

ClientUnused ==
    /\ phase = "none"
    /\ io = "idle"
    /\ cur = NoVal
    /\ xid = 1
    /\ sequence_id = NoClient
    /\ session = "none"
    /\ client_id = NoClient
    /\ max_read = 0
    /\ max_write = 0
    /\ supported_attrs = {}
    /\ sent = <<>>
    /\ answered = 0
    /\ rx = <<>>
    /\ aligned = TRUE
    /\ results = <<>>
    /\ last = NoVal
    /\ got = NoVal
    /\ ncalls = 0
    /\ nraw = 0

InitFraming ==
    /\ ClientUnused
    /\ LoopUnused
    /\ FsUnused
    /\ stage = "value"
    /\ value \in Messages
    /\ wire = <<>>
    /\ back = NoVal

\* send_request, lines 71 to 77
FrameWrite ==
    /\ stage = "value"
    /\ wire' = Frame(value)
    /\ stage' = "encoded"
    /\ UNCHANGED <<value, back, clientVars, loopVars, fsVars>>

\* receive_reply, lines 88 to 91
FrameRead ==
    /\ stage = "encoded"
    /\ back' = Unframe(wire)
    /\ stage' = "decoded"
    /\ UNCHANGED <<value, wire, clientVars, loopVars, fsVars>>

NextFraming == FrameWrite \/ FrameRead

SpecFraming == InitFraming /\ [][NextFraming]_vars

Framed == stage \in {"encoded", "decoded"}

HeaderOf(bytes) == FromBigEndian(SubSeq(bytes, 1, HeaderBytes))

\* C11 as claimed: for any message b the header's top bit is 1 and the bits
\* below it are the byte length of b, and reading the frame gives back b.
C11_AnyMessageRoundTrips ==
    /\ Framed =>
            /\ HeaderOf(wire) >= FinalBit
            /\ HeaderOf(wire) - FinalBit = Len(value)
    /\ stage = "decoded" => back = value

\* C11, amended: every call is written as exactly one fragment: a big-endian
\* header whose top bit is 1, followed by the message b.  The header's low
\* bits are the byte length of b modulo 2^31 (FinalBit here): for a b shorter
\* than that they equal the length and reading the header, masking the top bit
\* and reading that many bytes gives back b; for a longer b they do not, and
\* the read gives back only the first |b| mod 2^31 bytes.
C11_OneFragmentPerCall ==
    /\ Framed =>
            /\ Len(wire) = HeaderBytes + Len(value)
            /\ SubSeq(wire, HeaderBytes + 1, Len(wire)) = value
            /\ \A i \in 1..HeaderBytes : wire[i] \in 0..255
            /\ wire[1] >= 128
            /\ HeaderOf(wire) - FinalBit = Len(value) % FinalBit
    /\ stage = "decoded" =>
            IF Len(value) < FinalBit THEN back = value
            ELSE back = SubSeq(value, 1, Len(value) % FinalBit) /\ back # value

\* a message of three bytes, framed and read back
C11_Witness ==
    /\ stage = "decoded"
    /\ value = <<255, 0, 255>>
    /\ wire = <<128, 3, 255, 0, 255>>
    /\ back = value

(***************************************************************************)
(* Identifier sets as bitmaps, under SpecBitmap: EnumSet::to_raw and       *)
(* EnumSet::try_from_raw.  A u32 word is the set of the positions of its   *)
(* 1 bits, 0 the lowest: `w |= 1 << p` adds p, `w & 1 << p != 0` asks for  *)
(* p.                                                                      *)
(***************************************************************************)
WordBits == 32

\* the numbers that are a FileAttributeId
KnownIds == (0..76) \ {25}

\* the identifiers the sets of the model are made of: the ends of each word
SampleIds == {0, 1, 31, 32, 33, 63, 64, 76}

Min(S) == CHOOSE x \in S : \A y \in S : x <= y

Max(S) == CHOOSE x \in S : \A y \in S : x >= y

\* the iteration of a BTreeSet (or the keys of a BTreeMap): ascending
RECURSIVE Ascending(_)
Ascending(S) == IF S = {} THEN <<>> ELSE <<Min(S)>> \o Ascending(S \ {Min(S)})

\* map.resize(index + 1, 0)
Resize(map, n) == map \o [i \in 1..(n - Len(map)) |-> {}]

SetBitNoDiv(map, k) ==
    LET index == 0
        grown == IF index >= Len(map) THEN Resize(map, index + 1) ELSE map
    IN  [grown EXCEPT ![index + 1] = @ \cup {k % WordBits}]

\* the body of to_raw's loop for the identifier k
SetBit(map, k) ==
    LET index == k \div WordBits
        grown == IF index >= Len(map) THEN Resize(map, index + 1) ELSE map
    IN  [grown EXCEPT ![index + 1] = @ \cup {k % WordBits}]

RECURSIVE SetBits(_, _)
SetBits(keys, map) ==
    IF keys = <<>> THEN map ELSE SetBits(Tail(keys), SetBit(map, Head(keys)))

\* EnumSet::to_raw: the words of EnumSetRaw.map
EnumSetToRaw(S) == SetBits(Ascending(S), <<>>)

DecodeOk(v) == [ok |-> TRUE, val |-> v]

DecodeErr(e) == [ok |-> FALSE, err |-> e]

UnknownKeyValue(b) == [kind |-> "UnknownKeyValue", key |-> b]

\* a decoder that passes over the bits that are no identifier
EnumSetTryFromRawSkippingUnknown(map) ==
    DecodeOk({b \in 0..(Len(map) * WordBits - 1) :
                (b % WordBits) \in map[(b \div WordBits) + 1]} \cap KnownIds)

\* EnumSet::try_from_raw: every bit of every word in ascending order, the
\* first one that is no identifier ending the decoding
EnumSetTryFromRaw(map) ==
    LET bits == {b \in 0..(Len(map) * WordBits - 1) :
                    (b % WordBits) \in map[(b \div WordBits) + 1]}
        unknown == bits \ KnownIds
    IN  IF unknown # {} THEN DecodeErr(UnknownKeyValue(Min(unknown)))
        ELSE DecodeOk(bits)

InitBitmap ==
    /\ ClientUnused
    /\ LoopUnused
    /\ FsUnused
    /\ stage = "value"
    /\ value \in SUBSET SampleIds
    /\ wire = <<>>
    /\ back = NoVal

\* impl Serialize for EnumSet
BitmapEncode ==
    /\ stage = "value"
    /\ wire' = EnumSetToRaw(value)
    /\ stage' = "encoded"
    /\ UNCHANGED <<value, back, clientVars, loopVars, fsVars>>

\* impl Deserialize for EnumSet
BitmapDecode ==
    /\ stage = "encoded"
    /\ back' = EnumSetTryFromRaw(wire)
    /\ stage' = "decoded"
    /\ UNCHANGED <<value, wire, clientVars, loopVars, fsVars>>

NextBitmap == BitmapEncode \/ BitmapDecode

SpecBitmap == InitBitmap /\ [][NextBitmap]_vars

\* C14: the bitmap of a set S of identifiers has bit k % 32 of word k / 32 set
\* exactly for the k in S, has as many words as it takes to hold the largest
\* identifier of S (none for the empty S), and decodes to S.
C14_BitmapOfSet ==
    /\ stage \in {"encoded", "decoded"} =>
            /\ \A w \in 1..Len(wire) : wire[w] \subseteq 0..31
            /\ \A w \in 1..Len(wire) : \A p \in 0..31 :
                    p \in wire[w] <=> (32 * (w - 1) + p) \in value
            /\ \A k \in value : k \div 32 < Len(wire) /\ (k % 32) \in wire[(k \div 32) + 1]
            /\ Len(wire) = IF value = {} THEN 0 ELSE (Max(value) \div 32) + 1
    /\ stage = "decoded" => back = DecodeOk(value)

\* a set with identifiers in the first and the third word and none in the
\* second, encoded and decoded
C14_Witness ==
    /\ stage = "decoded"
    /\ value = {0, 31, 64, 76}
    /\ wire = <<{0, 31}, {}, {0, 12}>>
    /\ back = DecodeOk({0, 31, 64, 76})

(***************************************************************************)
(* XDR, as serde_xdr writes and reads it: everything in units of 4 bytes,  *)
(* integers big-endian.  Numbers of the model stay below 2^31.             *)
(***************************************************************************)
XdrU32(n) == ToBigEndian(n, 4)

\* a u64 below 2^31: the high word is 0
XdrU64(n) == XdrU32(0) \o XdrU32(n)

\* an i32 in two's complement: a negative n has the top bit and the low 31
\* bits of n + 2^31
XdrI32(n) ==
    IF n >= 0 THEN XdrU32(n)
    ELSE LET low == XdrU32((n + 2147483647) + 1)
         IN  [low EXCEPT ![1] = low[1] + 128]

XdrBool(b) == XdrU32(IF b THEN 1 ELSE 0)

\* zero bytes up to the next multiple of 4
XdrPad(n) == [i \in 1..((4 - (n % 4)) % 4) |-> 0]

\* a string or an opaque: the length, the bytes, the padding
XdrBytes(bytes) == XdrU32(Len(bytes)) \o bytes \o XdrPad(Len(bytes))

RECURSIVE Pow2(_)
Pow2(k) == IF k = 0 THEN 1 ELSE 2 * Pow2(k - 1)

RECURSIVE SumPow2(_)
SumPow2(S) == IF S = {} THEN 0 ELSE Pow2(Min(S)) + SumPow2(S \ {Min(S)})

\* the four bytes of a word given as the set of its 1 bits
XdrWord(w) == [i \in 1..4 |-> SumPow2({p % 8 : p \in {q \in w : q \div 8 = 4 - i}})]

RECURSIVE XdrWordsFrom(_)
XdrWordsFrom(map) == IF map = <<>> THEN <<>> ELSE XdrWord(Head(map)) \o XdrWordsFrom(Tail(map))

\* EnumSetRaw, a struct of one Vec<u32>: the count and the words
XdrWords(map) == XdrU32(Len(map)) \o XdrWordsFrom(map)

\* the bytes after the first n
Skip(bytes, n) == SubSeq(bytes, n + 1, Len(bytes))

\* what a reader hands back: a value and the bytes it left, or an error
Parsed(v, rest) == [ok |-> TRUE, val |-> v, rest |-> rest]

BadValueXdr == [ok |-> FALSE, err |-> [kind |-> "BadValueXdr"]]

ParseU32(bytes) ==
    IF Len(bytes) < 4 THEN BadValueXdr
    ELSE Parsed(FromBigEndian(SubSeq(bytes, 1, 4)), SubSeq(bytes, 5, Len(bytes)))

ParseI32(bytes) ==
    IF Len(bytes) < 4 THEN BadValueXdr
    ELSE IF bytes[1] < 128 THEN ParseU32(bytes)
    ELSE Parsed((FromBigEndian(<<bytes[1] - 128, bytes[2], bytes[3], bytes[4]>>)
                    - 2147483647) - 1,
                SubSeq(bytes, 5, Len(bytes)))

ParseU64(bytes) ==
    LET hi == ParseU32(bytes)
    IN  IF ~hi.ok THEN hi ELSE ParseU32(hi.rest)

ParseBool(bytes) ==
    LET n == ParseU32(bytes)
    IN  IF ~n.ok THEN n
        ELSE IF n.val \notin {0, 1} THEN BadValueXdr
        ELSE Parsed(n.val = 1, n.rest)

ParseBytesUnpadded(bytes) ==
    LET n == ParseU32(bytes)
    IN  IF ~n.ok THEN n
        ELSE IF Len(n.rest) < n.val THEN BadValueXdr
        ELSE Parsed(SubSeq(n.rest, 1, n.val), SubSeq(n.rest, n.val + 1, Len(n.rest)))

ParseBytes(bytes) ==
    LET n == ParseU32(bytes)
    IN  IF ~n.ok THEN n
        ELSE LET total == n.val + Len(XdrPad(n.val))
             IN  IF Len(n.rest) < total THEN BadValueXdr
                 ELSE Parsed(SubSeq(n.rest, 1, n.val),
                             SubSeq(n.rest, total + 1, Len(n.rest)))

\* the set of the 1 bits of the word in four bytes
WordOfBytes(b) == {p \in 0..31 : (b[4 - (p \div 8)] \div Pow2(p % 8)) % 2 = 1}

ParseWords(bytes) ==
    LET n == ParseU32(bytes)
    IN  IF ~n.ok THEN n
        ELSE IF Len(n.rest) < 4 * n.val THEN BadValueXdr
        ELSE Parsed([i \in 1..n.val |-> WordOfBytes(SubSeq(n.rest, 4 * i - 3, 4 * i))],
                    SubSeq(n.rest, 4 * n.val + 1, Len(n.rest)))

\* impl Deserialize for EnumSet: the raw words, then try_from_raw
ParseEnumSet(bytes) ==
    LET raw == ParseWords(bytes)
    IN  IF ~raw.ok THEN raw
        ELSE LET set == EnumSetTryFromRaw(raw.val)
             IN  IF set.ok THEN Parsed(set.val, raw.rest) ELSE BadValueXdr

(***************************************************************************)
(* StatusResult<T> and its hand-written Serialize and Deserialize.  A      *)
(* StatusError is its u32 code; T is one of the payload types below.       *)
(***************************************************************************)
\* the discriminants of enum StatusError
StatusCodes ==
    (1..2) \cup (5..6) \cup {13} \cup (17..18) \cup (20..22) \cup (27..28)
        \cup (30..31) \cup {63, 66} \cup (69..70) \cup {10001}
        \cup (10003..10017) \cup (10019..10072) \cup (10074..10087)

\* StatusError::Denied
Denied == 10010

\* the value of type ()
Unit == <<>>

StatusResultOk(v) == [ok |-> TRUE, val |-> v]

StatusResultErr(e) == [ok |-> FALSE, err |-> e]

\* SerializeWithDiscriminant on the unit variants of StatusError
SerializeStatusError(e) == XdrU32(e)

\* TryFromPrimitive on StatusError
StatusErrorTryFrom(disc) ==
    IF disc \in StatusCodes THEN DecodeOk(disc)
    ELSE DecodeErr([kind |-> "Custom", unexpected |-> disc])

RECURSIVE XdrPayload(_, _)
RECURSIVE ParsePayload(_, _)

\* an Err that passes for Ok: the code 0 in the place of the error's own
SerializeStatusResultErrAsOk(T, r) ==
    IF r.ok THEN XdrU32(0) \o XdrPayload(T, r.val)
    ELSE XdrU32(0)

\* impl Serialize for StatusResult<T>
SerializeStatusResult(T, r) ==
    IF r.ok THEN XdrU32(0) \o XdrPayload(T, r.val)
    ELSE SerializeStatusError(r.err)

\* impl Deserialize for StatusResult<T>, visit_seq
DeserializeStatusResult(T, bytes) ==
    LET disc == ParseU32(bytes)
    IN  IF ~disc.ok THEN disc
        ELSE IF disc.val = 0
             THEN LET v == ParsePayload(T, disc.rest)
                  IN  IF ~v.ok THEN v
                      ELSE Parsed(StatusResultOk(v.val), v.rest)
        ELSE LET err_id == StatusErrorTryFrom(disc.val)
             IN  IF ~err_id.ok THEN err_id
                 ELSE Parsed(StatusResultErr(err_id.val), disc.rest)

\* the encoding of a value of each payload type of the model
XdrPayload(type, v) ==
    CASE type = "unit" -> <<>>
      [] type = "set" -> XdrWords(EnumSetToRaw(v))
      [] type = "u64" -> XdrU64(v)
      [] type = "i32" -> XdrI32(v)
      [] type = "bool" -> XdrBool(v)
      [] type = "string" -> XdrBytes(v)
      [] type = "status" -> SerializeStatusResult("unit", v)
      [] OTHER -> XdrU32(v)

ParsePayload(type, bytes) ==
    CASE type = "unit" -> Parsed(Unit, bytes)
      [] type = "set" -> ParseEnumSet(bytes)
      [] type = "u64" -> ParseU64(bytes)
      [] type = "i32" -> ParseI32(bytes)
      [] type = "bool" -> ParseBool(bytes)
      [] type = "string" -> ParseBytes(bytes)
      [] type = "status" -> DeserializeStatusResult("unit", bytes)
      [] OTHER -> ParseU32(bytes)

\* the payload types T of the StatusResult<T> of the model and their values
StatusPayloadTypes == {"unit", "u32", "string"}

StatusPayloads(T) ==
    CASE T = "unit" -> {Unit}
      [] T = "string" -> {<<>>, <<97>>, <<97, 98, 99, 100>>}
      [] OTHER -> {0, 7, 65536}

\* codes that no StatusError has, on either side of the ones that some has
ForeignCodes == {3, 4, 71, 10000, 10002, 10018, 10073, 10088, 65536}

StatusResults(T) ==
    {StatusResultOk(v) : v \in StatusPayloads(T)}
        \cup {StatusResultErr(e) : e \in StatusCodes}

\* SpecStatus: a StatusResult<T> of the program is encoded and decoded, or a
\* reply carrying a status code of the server's choice is decoded
InitStatus ==
    /\ ClientUnused
    /\ LoopUnused
    /\ FsUnused
    /\ back = NoVal
    /\ \E T \in StatusPayloadTypes :
        \/ /\ stage = "value"
           /\ \E r \in StatusResults(T) : value = [T |-> T, r |-> r]
           /\ wire = <<>>
        \/ /\ stage = "received"
           /\ \E c \in ForeignCodes :
                /\ value = [T |-> T, code |-> c]
                /\ wire = XdrU32(c)

StatusEncode ==
    /\ stage = "value"
    /\ wire' = SerializeStatusResult(value.T, value.r)
    /\ stage' = "encoded"
    /\ UNCHANGED <<value, back, clientVars, loopVars, fsVars>>

StatusDecode ==
    /\ stage \in {"encoded", "received"}
    /\ back' = DeserializeStatusResult(value.T, wire)
    /\ stage' = "decoded"
    /\ UNCHANGED <<value, wire, clientVars, loopVars, fsVars>>

NextStatus == StatusEncode \/ StatusDecode

SpecStatus == InitStatus /\ [][NextStatus]_vars

\* the value was the program's own, not a reply made up by the server
OwnValue == "r" \in DOMAIN value

\* C15: Ok(v) is encoded as the u32 0 and then v, Err(c) as the u32 c and
\* nothing else; decoding the encoding gives back the value and leaves no
\* byte; a non-zero code that no StatusError has is an error, not a value.
C15_StatusResultCodec ==
    /\ stage \in {"encoded", "decoded"} /\ OwnValue =>
        /\ SubSeq(wire, 1, 4) = ToBigEndian(IF value.r.ok THEN 0 ELSE value.r.err, 4)
        /\ Skip(wire, 4) = IF value.r.ok THEN XdrPayload(value.T, value.r.val) ELSE <<>>
    /\ stage = "decoded" /\ OwnValue =>
        /\ back.ok
        /\ back.val = value.r
        /\ back.rest = <<>>
    /\ stage = "decoded" /\ ~OwnValue => ~back.ok

\* Err(Denied) of a StatusResult<String> decoded from its four bytes
C15_Witness ==
    /\ stage = "decoded"
    /\ OwnValue
    /\ value = [T |-> "string", r |-> StatusResultErr(Denied)]
    /\ wire = <<0, 0, 39, 26>>
    /\ back = Parsed(StatusResultErr(Denied), <<>>)



(***************************************************************************)
(* LockStatusResult<T>: a StatusResult whose error carries an              *)
(* Option<LockDenied>, under SpecLockStatus.                               *)
(***************************************************************************)
None == [some |-> FALSE]

Some(v) == [some |-> TRUE, val |-> v]

\* the discriminants of enum LockType
LockTypes == 1..4

\* struct LockDenied, with its StateOwner
LockDenied(off, length, lock_type, id, opaque) ==
    [offset |-> off, length |-> length, lock_type |-> lock_type,
     owner |-> [client_id |-> id, opaque |-> opaque]]

\* derive(Serialize) on LockDenied: the fields in declaration order
SerializeLockDenied(d) ==
    XdrU64(d.offset) \o XdrU64(d.length) \o XdrU32(d.lock_type)
        \o XdrU64(d.owner.client_id) \o XdrBytes(d.owner.opaque)

\* derive(Deserialize) on LockDenied
DeserializeLockDenied(bytes) ==
    LET off == ParseU64(bytes)
    IN  IF ~off.ok THEN off
        ELSE LET length == ParseU64(off.rest)
        IN  IF ~length.ok THEN length
        ELSE LET lock_type == ParseU32(length.rest)
        IN  IF ~lock_type.ok THEN lock_type
        ELSE IF lock_type.val \notin LockTypes THEN BadValueXdr
        ELSE LET id == ParseU64(lock_type.rest)
        IN  IF ~id.ok THEN id
        ELSE LET opaque == ParseBytes(id.rest)
        IN  IF ~opaque.ok THEN opaque
        ELSE Parsed(LockDenied(off.val, length.val, lock_type.val,
                               id.val, opaque.val), opaque.rest)

LockStatusResultOk(v) == [ok |-> TRUE, val |-> v]

\* LockStatusResult::Err(LockStatusError { error, denied })
LockStatusResultErr(error, denied) == [ok |-> FALSE, error |-> error, denied |-> denied]

\* what a serializer gives: the bytes, or no bytes because it panicked
Written(bytes) == [ok |-> TRUE, bytes |-> bytes]

Panicked == [ok |-> FALSE]

\* impl Serialize for LockStatusResult<T>: denied.as_ref().unwrap() panics
\* on None
SerializeLockStatusResult(T, r) ==
    IF r.ok THEN Written(XdrU32(0) \o XdrPayload(T, r.val))
    ELSE IF r.error = Denied
         THEN IF r.denied.some
              THEN Written(SerializeStatusError(r.error)
                            \o SerializeLockDenied(r.denied.val))
              ELSE Panicked
    ELSE Written(SerializeStatusError(r.error))

\* impl Deserialize for LockStatusResult<T>, visit_seq
DeserializeLockStatusResult(T, bytes) ==
    LET disc == ParseU32(bytes)
    IN  IF ~disc.ok THEN disc
        ELSE IF disc.val = 0
             THEN LET v == ParsePayload(T, disc.rest)
                  IN  IF ~v.ok THEN v
                      ELSE Parsed(LockStatusResultOk(v.val), v.rest)
        ELSE LET error == StatusErrorTryFrom(disc.val)
             IN  IF ~error.ok THEN error
                 ELSE IF error.val = Denied
                      THEN LET denied == DeserializeLockDenied(disc.rest)
                           IN  IF ~denied.ok THEN denied
                               ELSE Parsed(LockStatusResultErr(error.val, Some(denied.val)),
                                           denied.rest)
                 ELSE Parsed(LockStatusResultErr(error.val, None), disc.rest)

\* two conflicting locks a server may report
LockDeniedSamples ==
    {LockDenied(0, 8, 1, 5, <<1>>), LockDenied(4096, 0, 4, 258, <<1, 2, 3, 4>>)}

\* the payload types T of the LockStatusResult<T> of the model
LockPayloadTypes == {"u32", "string"}

LockStatusResults(T) ==
    {LockStatusResultOk(v) : v \in StatusPayloads(T)}
        \cup {LockStatusResultErr(e, None) : e \in StatusCodes}
        \cup {LockStatusResultErr(e, Some(d)) : e \in StatusCodes, d \in LockDeniedSamples}

InitLockStatus ==
    /\ ClientUnused
    /\ LoopUnused
    /\ FsUnused
    /\ stage = "value"
    /\ \E T \in LockPayloadTypes : \E r \in LockStatusResults(T) :
            value = [T |-> T, r |-> r]
    /\ wire = <<>>
    /\ back = NoVal

LockStatusEncode ==
    /\ stage = "value"
    /\ LET written == SerializeLockStatusResult(value.T, value.r)
       IN  IF written.ok
           THEN wire' = written.bytes /\ stage' = "encoded"
           ELSE wire' = wire /\ stage' = "panicked"
    /\ UNCHANGED <<value, back, clientVars, loopVars, fsVars>>

LockStatusDecode ==
    /\ stage = "encoded"
    /\ back' = DeserializeLockStatusResult(value.T, wire)
    /\ stage' = "decoded"
    /\ UNCHANGED <<value, wire, clientVars, loopVars, fsVars>>

NextLockStatus == LockStatusEncode \/ LockStatusDecode

SpecLockStatus == InitLockStatus /\ [][NextLockStatus]_vars

\* C16 as claimed: every LockStatusResult is encoded without failure, and
\* its encoding decodes to the value itself.
C16_EveryValueRoundTrips ==
    /\ stage # "panicked"
    /\ stage = "decoded" => back.ok /\ back.val = value.r

\* what holds of C16: an encoded error is followed by a LockDenied exactly
\* when its code is Denied, and a value whose error is Denied exactly when it
\* stores a LockDenied is encoded and decodes to itself.
C16_DeniedPayloadFollowsDenied ==
    /\ stage \in {"encoded", "decoded"} /\ ~value.r.ok =>
        /\ SubSeq(wire, 1, 4) = ToBigEndian(value.r.error, 4)
        /\ Skip(wire, 4) = IF value.r.error = Denied
                           THEN SerializeLockDenied(value.r.denied.val)
                           ELSE <<>>
    /\ stage = "decoded" => back.ok /\ back.rest = <<>>
    /\ /\ stage = "decoded"
       /\ value.r.ok \/ (value.r.denied.some <=> value.r.error = Denied)
       => back.val = value.r
    /\ /\ stage = "panicked"
       => ~value.r.ok /\ value.r.error = Denied /\ ~value.r.denied.some

\* Err of Denied with no LockDenied stored: the serializer panicked
C16_EncodePanics ==
    /\ stage = "panicked"
    /\ value.r = LockStatusResultErr(Denied, None)

\* Err of Perm with a LockDenied stored comes back without it
C16_DeniedDropped ==
    /\ stage = "decoded"
    /\ value.r = LockStatusResultErr(1, Some(LockDenied(0, 8, 1, 5, <<1>>)))
    /\ wire = <<0, 0, 0, 1>>
    /\ back.ok
    /\ back.val = LockStatusResultErr(1, None)


(***************************************************************************)
(* Tagged unions: what derive(SerializeWithDiscriminant) and               *)
(* derive(DeserializeWithDiscriminant) generate for an enum, under         *)
(* SpecUnion.  An enum is the sequence of its variants in declaration      *)
(* order, each with its discriminant, the types of its fields in           *)
(* declaration order, and whether it carries #[serde(other)]; a value is a *)
(* variant's name with the values of its fields.                           *)
(***************************************************************************)
Variant(name, disc, fields, other) ==
    [name |-> name, disc |-> disc, fields |-> fields, other |-> other]

\* enum Foo of the tests: unit variants
Foo == <<Variant("A", 1, <<>>, FALSE), Variant("B", 2, <<>>, FALSE),
         Variant("C", 3, <<>>, FALSE)>>

\* enum Bar of the tests: a single field, named fields, a tuple, and a unit
\* variant marked other
Bar == <<Variant("A", 1, <<"string">>, FALSE), Variant("B", 2, <<"i32", "u32">>, FALSE),
         Variant("C", 7, <<"i32", "u64">>, FALSE), Variant("D", 9, <<>>, TRUE)>>

\* enum Baz<T> of the tests
Baz(T) == <<Variant("A", 3, <<T>>, FALSE), Variant("B", 9, <<>>, FALSE)>>

\* the enums of the model
EnumNames == {"Foo", "Bar", "Baz<u32>", "Baz<String>"}

EnumOf(name) ==
    CASE name = "Foo" -> Foo
      [] name = "Bar" -> Bar
      [] name = "Baz<u32>" -> Baz("u32")
      [] OTHER -> Baz("string")

has_other_attr(v) == v.other

EnumValue(name, fields) == [variant |-> name, fields |-> fields]

\* the fields of a variant, serialized one after the other in the order of
\* the serialize_field statements
RECURSIVE SerializeFields(_, _)
SerializeFields(types, fields) ==
    IF types = <<>> THEN <<>>
    ELSE XdrPayload(Head(types), Head(fields))
            \o SerializeFields(Tail(types), Tail(fields))

Reverse(seq) == [i \in 1..Len(seq) |-> seq[Len(seq) + 1 - i]]

\* the fields written last to first
generate_serialize_reversed(en, v) ==
    LET arm == en[CHOOSE i \in 1..Len(en) : en[i].name = v.variant]
    IN  XdrU32(arm.disc) \o SerializeFields(Reverse(arm.fields), Reverse(v.fields))

\* generate_serialize: the match arm of the value's variant writes the
\* discriminant and then every field
generate_serialize(en, v) ==
    LET arm == en[CHOOSE i \in 1..Len(en) : en[i].name = v.variant]
    IN  XdrU32(arm.disc) \o SerializeFields(arm.fields, v.fields)

\* the next_element calls of an arm, one per field in order
RECURSIVE DeserializeFields(_, _, _)
DeserializeFields(types, bytes, fields) ==
    IF types = <<>> THEN Parsed(fields, bytes)
    ELSE LET field == ParsePayload(Head(types), bytes)
         IN  IF ~field.ok THEN field
             ELSE DeserializeFields(Tail(types), field.rest, Append(fields, field.val))

\* the arms of the generated match: the variants without the other attribute
arms(en) == SelectSeq(en, LAMBDA v : ~has_other_attr(v))

Unexpected(disc) == DecodeErr([kind |-> "Custom", unexpected |-> disc])

\* a default arm that takes the first variant of the enum
default_arm_first(en, disc, rest) == Parsed(EnumValue(en[1].name, <<>>), rest)

\* the default arm: an error, or the last variant with the other attribute
default_arm(en, disc, rest) ==
    LET others == SelectSeq(en, has_other_attr)
    IN  IF others = <<>> THEN Unexpected(disc)
        ELSE Parsed(EnumValue(others[Len(others)].name, <<>>), rest)

\* generate_deserialize, visit_seq: the discriminant, then the first arm
\* whose discriminant it is, or the default arm
generate_deserialize(en, bytes) ==
    LET disc == ParseU32(bytes)
    IN  IF ~disc.ok THEN disc
        ELSE LET matching == SelectSeq(arms(en), LAMBDA v : v.disc = disc.val)
             IN  IF matching = <<>> THEN default_arm(en, disc.val, disc.rest)
                 ELSE LET fields == DeserializeFields(matching[1].fields, disc.rest, <<>>)
                      IN  IF ~fields.ok THEN fields
                          ELSE Parsed(EnumValue(matching[1].name, fields.val), fields.rest)

\* two values of each field type
FieldValue(type, c) ==
    CASE type = "string" -> IF c = 1 THEN <<104, 105>> ELSE <<97, 98, 99, 100>>
      [] type = "i32" -> IF c = 1 THEN 7 ELSE 0 - 2
      [] type = "u64" -> IF c = 1 THEN 255 ELSE 65536
      [] OTHER -> IF c = 1 THEN 8 ELSE 255

\* discriminants a peer may send: those of the enums and others around them
SentDiscriminants == (0..10) \cup {255, 65536}

\* what may follow a discriminant the peer sent
SentTails == {<<>>, <<0, 0, 0, 7>>}

\* SpecUnion: a value of one of the enums is encoded and decoded, or bytes
\* with a discriminant of the peer's choice are decoded
InitUnion ==
    /\ ClientUnused
    /\ LoopUnused
    /\ FsUnused
    /\ back = NoVal
    /\ \E e \in EnumNames :
        \/ /\ stage = "value"
           /\ \E i \in 1..Len(EnumOf(e)) :
              \E c \in [1..Len(EnumOf(e)[i].fields) -> {1, 2}] :
                value = [enum |-> e,
                         v |-> EnumValue(EnumOf(e)[i].name,
                                [k \in 1..Len(EnumOf(e)[i].fields) |->
                                    FieldValue(EnumOf(e)[i].fields[k], c[k])])]
           /\ wire = <<>>
        \/ /\ stage = "received"
           /\ \E d \in SentDiscriminants : \E tail \in SentTails :
                /\ value = [enum |-> e, disc |-> d]
                /\ wire = XdrU32(d) \o tail

UnionEncode ==
    /\ stage = "value"
    /\ wire' = generate_serialize(EnumOf(value.enum), value.v)
    /\ stage' = "encoded"
    /\ UNCHANGED <<value, back, clientVars, loopVars, fsVars>>

UnionDecode ==
    /\ stage \in {"encoded", "received"}
    /\ back' = generate_deserialize(EnumOf(value.enum), wire)
    /\ stage' = "decoded"
    /\ UNCHANGED <<value, wire, clientVars, loopVars, fsVars>>

NextUnion == UnionEncode \/ UnionDecode

SpecUnion == InitUnion /\ [][NextUnion]_vars

\* the value is one of the program's, not bytes of the peer
OwnUnionValue == "v" \in DOMAIN value

\* the declaration of the variant of the program's value
Declared == LET en == EnumOf(value.enum)
            IN  en[CHOOSE i \in 1..Len(en) : en[i].name = value.v.variant]

\* the number of bytes of the first n fields of the program's value
RECURSIVE FieldsEnd(_)
FieldsEnd(n) ==
    IF n = 0 THEN 4
    ELSE FieldsEnd(n - 1) + Len(XdrPayload(Declared.fields[n], value.v.fields[n]))

\* C17: a value of variant V with declared discriminant d is encoded as the 4
\* bytes of d big-endian followed by the encodings of V's fields in
\* declaration order, nothing for a unit variant; decoding these bytes gives
\* back the value and leaves none.
C17_TaggedUnionCodec ==
    /\ stage \in {"encoded", "decoded"} /\ OwnUnionValue =>
        /\ SubSeq(wire, 1, 4) = ToBigEndian(Declared.disc, 4)
        /\ Len(wire) = FieldsEnd(Len(Declared.fields))
        /\ \A n \in 1..Len(Declared.fields) :
                SubSeq(wire, FieldsEnd(n - 1) + 1, FieldsEnd(n))
                    = XdrPayload(Declared.fields[n], value.v.fields[n])
    /\ stage = "decoded" /\ OwnUnionValue =>
        /\ back.ok
        /\ back.val.variant = value.v.variant
        /\ back.val.fields = value.v.fields
        /\ back.rest = <<>>

\* Bar::B { a: -2, b: 8 } decoded from its twelve bytes
C17_Witness ==
    /\ stage = "decoded"
    /\ OwnUnionValue
    /\ value = [enum |-> "Bar", v |-> EnumValue("B", <<0 - 2, 8>>)]
    /\ wire = <<0, 0, 0, 2, 255, 255, 255, 254, 0, 0, 0, 8>>
    /\ back = Parsed(EnumValue("B", <<0 - 2, 8>>), <<>>)

\* the discriminants of the variants that do not carry the other attribute
OrdinaryDiscriminants(en) == {en[i].disc : i \in {j \in 1..Len(en) : ~en[j].other}}

\* the variants that carry it
OtherVariants(en) == {en[i].name : i \in {j \in 1..Len(en) : en[j].other}}

\* C18: bytes whose discriminant is that of no variant decode to the other
\* variant of the enum if it has one and to an error if it has none; only the
\* discriminant of an ordinary variant decodes to that variant.
C18_UnknownDiscriminant ==
    stage = "decoded" /\ ~OwnUnionValue =>
        LET en == EnumOf(value.enum)
        IN  /\ value.disc \notin {en[i].disc : i \in 1..Len(en)} =>
                IF OtherVariants(en) = {} THEN ~back.ok
                ELSE /\ back.ok
                     /\ back.val.variant \in OtherVariants(en)
                     /\ back.val.fields = <<>>
            /\ \A i \in 1..Len(en) :
                    back.ok /\ back.val.variant = en[i].name /\ ~en[i].other
                        => value.disc = en[i].disc

\* the bytes 0, 0, 0, 255 decoded as a Bar give Bar::D
C18_WitnessOther ==
    /\ stage = "decoded"
    /\ value = [enum |-> "Bar", disc |-> 255]
    /\ wire = <<0, 0, 0, 255>>
    /\ back = Parsed(EnumValue("D", <<>>), <<>>)


(***************************************************************************)
(* Attribute maps, under SpecAttrMap: EnumMap<FileAttributeId,             *)
(* FileAttribute> built from a list of attributes, encoded with to_raw and *)
(* decoded with try_from_raw.  A map is the sequence of its entries in the *)
(* order of the BTreeMap.                                                  *)
(***************************************************************************)
\* attributes in the list a map is built from
MaxAttrs == 3

\* the payload type of the FileAttribute variant with this discriminant, for
\* the variants of the model: SupportedAttrs, Size, LinkSupport,
\* ReadDirAttrError, MimeType and FsCharsetCap
AttrType(id) ==
    CASE id = 0 -> "set"
      [] id = 4 -> "u64"
      [] id = 5 -> "bool"
      [] id = 11 -> "status"
      [] id = 32 -> "string"
      [] id = 76 -> "u32"
      [] OTHER -> "none"

\* two payloads for each of them
AttrValue(id, c) ==
    CASE id = 0 -> IF c = 1 THEN {} ELSE {0, 4, 33}
      [] id = 4 -> IF c = 1 THEN 0 ELSE 258
      [] id = 5 -> (c = 1)
      [] id = 11 -> IF c = 1 THEN StatusResultOk(Unit) ELSE StatusResultErr(10036)
      [] id = 32 -> IF c = 1 THEN <<97>> ELSE <<97, 98, 99, 100>>
      [] OTHER -> IF c = 1 THEN 7 ELSE 65536

AttrIds == {0, 4, 5, 11, 32, 76}

Attr(id, v) == [id |-> id, val |-> v]

\* impl ToId<FileAttributeId> for FileAttribute
ToId(a) == a.id

\* SerializeWithDiscriminant on FileAttribute: the discriminant, then the field
SerializeAttr(a) == XdrU32(a.id) \o XdrPayload(AttrType(a.id), a.val)

\* DeserializeWithDiscriminant on FileAttribute: the discriminant picks the
\* variant, whose field is read next; no variant, no value
DeserializeAttr(bytes) ==
    LET disc == ParseU32(bytes)
    IN  IF ~disc.ok THEN disc
        ELSE IF AttrType(disc.val) = "none" THEN BadValueXdr
        ELSE LET field == ParsePayload(AttrType(disc.val), disc.rest)
             IN  IF ~field.ok THEN field
                 ELSE Parsed(Attr(disc.val, field.val), field.rest)

\* BTreeMap::insert: the entry takes its place in key order, in place of an
\* entry of the same key
Insert(m, k, v) ==
    SelectSeq(m, LAMBDA e : e.key < k) \o <<[key |-> k, val |-> v]>>
        \o SelectSeq(m, LAMBDA e : e.key > k)

RECURSIVE InsertAll(_, _)
InsertAll(list, m) ==
    IF list = <<>> THEN m
    ELSE InsertAll(Tail(list), Insert(m, ToId(Head(list)), Head(list)))

\* impl FromIterator<V> for EnumMap<K, V>
EnumMapFromIter(list) == InsertAll(list, <<>>)

Keys(m) == {m[i].key : i \in 1..Len(m)}

RECURSIVE BodyKeepingDiscriminant(_)
BodyKeepingDiscriminant(m) ==
    IF m = <<>> THEN <<>>
    ELSE SerializeAttr(Head(m).val) \o BodyKeepingDiscriminant(Tail(m))

\* the loop of EnumMap::to_raw: every value serialized, less its first 4 bytes
RECURSIVE Body(_)
Body(m) ==
    IF m = <<>> THEN <<>>
    ELSE Skip(SerializeAttr(Head(m).val), 4) \o Body(Tail(m))

\* EnumMap::to_raw
EnumMapToRaw(m) == [map |-> EnumSetToRaw(Keys(m)), body |-> Body(m)]

\* the loop of EnumMap::try_from_raw: the value of each key is read from the
\* key's 4 bytes followed by what is left of the body
RECURSIVE ReadValues(_, _, _)
ReadValues(keys, cursor, m) ==
    IF keys = <<>> THEN DecodeOk(m)
    ELSE LET got1 == DeserializeAttr(XdrU32(Head(keys)) \o cursor)
         IN  IF ~got1.ok THEN DecodeErr(got1.err)
             ELSE ReadValues(Tail(keys), got1.rest, Insert(m, Head(keys), got1.val))

\* EnumMap::try_from_raw
EnumMapTryFromRaw(raw) ==
    LET key_set == EnumSetTryFromRaw(raw.map)
    IN  IF ~key_set.ok THEN key_set
        ELSE ReadValues(Ascending(key_set.val), raw.body, <<>>)

\* the identifiers of lists of up to MaxAttrs attributes of distinct
\* identifiers, in any order
AttrIdLists ==
    UNION {{l \in [1..n -> AttrIds] : \A i \in 1..n : \A j \in 1..n :
                i # j => l[i] # l[j]} : n \in 0..MaxAttrs}

InitAttrMap ==
    /\ ClientUnused
    /\ LoopUnused
    /\ FsUnused
    /\ stage = "list"
    /\ \E ids \in AttrIdLists : \E c \in [1..Len(ids) -> {1, 2}] :
            value = [i \in 1..Len(ids) |-> Attr(ids[i], AttrValue(ids[i], c[i]))]
    /\ wire = <<>>
    /\ back = NoVal

\* FileAttributes::from_iter
AttrCollect ==
    /\ stage = "list"
    /\ value' = EnumMapFromIter(value)
    /\ stage' = "value"
    /\ UNCHANGED <<wire, back, clientVars, loopVars, fsVars>>

\* impl Serialize for EnumMap
AttrEncode ==
    /\ stage = "value"
    /\ wire' = EnumMapToRaw(value)
    /\ stage' = "encoded"
    /\ UNCHANGED <<value, back, clientVars, loopVars, fsVars>>

\* impl Deserialize for EnumMap
AttrDecode ==
    /\ stage = "encoded"
    /\ back' = EnumMapTryFromRaw(wire)
    /\ stage' = "decoded"
    /\ UNCHANGED <<value, wire, clientVars, loopVars, fsVars>>

NextAttrMap == AttrCollect \/ AttrEncode \/ AttrDecode

SpecAttrMap == InitAttrMap /\ [][NextAttrMap]_vars

\* the entries are in strictly ascending key order, each under its own id
InKeyOrder(m) ==
    /\ \A i \in 1..Len(m) : m[i].key = ToId(m[i].val)
    /\ \A i \in 1..(Len(m) - 1) : m[i].key < m[i + 1].key

IsMap == stage \in {"value", "encoded", "decoded"}

C12_MapOfList ==
    stage = "list" /\ stage' = "value" =>
        /\ Len(value') = Len(value)
        /\ \A i \in 1..Len(value) : \E j \in 1..Len(value') :
                value'[j].key = value[i].id /\ value'[j].val = value[i]

C12_Decoded ==
    /\ IsMap => InKeyOrder(value)
    /\ stage = "decoded" =>
            /\ back.ok
            /\ InKeyOrder(back.val)
            /\ Len(back.val) = Len(value)
            /\ back.val = value

\* C12: a map built from attributes of distinct identifiers holds exactly
\* those attributes, iterates in ascending identifier order, and decoding its
\* encoding gives back the same map.
C12_AttrMapRoundTrip ==
    /\ []C12_Decoded
    /\ [][C12_MapOfList]_vars

\* a map of a set, a string that takes padding and a u32, decoded to itself
C12_Witness ==
    /\ stage = "decoded"
    /\ Len(value) = 3
    /\ value[1].key = 0 /\ value[1].val.val = {0, 4, 33}
    /\ value[2].key = 32 /\ value[2].val.val = <<97>>
    /\ value[3].key = 76 /\ value[3].val.val = 65536
    /\ back = DecodeOk(value)

EntryOf(m, k) == m[CHOOSE i \in 1..Len(m) : m[i].key = k]

\* the payloads of the keys, in the order of the sequence keys
RECURSIVE Payloads(_, _)
Payloads(m, keys) ==
    IF keys = <<>> THEN <<>>
    ELSE XdrPayload(AttrType(Head(keys)), EntryOf(m, Head(keys)).val.val)
            \o Payloads(m, Tail(keys))

RECURSIVE BitCount(_)
BitCount(map) == IF map = <<>> THEN 0 ELSE Cardinality(Head(map)) + BitCount(Tail(map))

\* C13: the encoded map is a bitmap with one bit per entry, the bit of the
\* entry's identifier, and a body that is the payloads of the entries in
\* ascending identifier order, each without the 4 bytes of its discriminant.
C13_AttrMapWireLayout ==
    stage \in {"encoded", "decoded"} =>
        /\ BitCount(wire.map) = Len(value)
        /\ {b \in 0..(32 * Len(wire.map) - 1) : (b % 32) \in wire.map[(b \div 32) + 1]}
            = Keys(value)
        /\ wire.body = Payloads(value, Ascending(Keys(value)))

\* Size 258 and MimeType "a": bit 4 of the first word, bit 0 of the second, 8
\* bytes of u64 and 8 bytes of string
C13_Witness ==
    /\ stage = "encoded"
    /\ Keys(value) = {4, 32}
    /\ wire.map = <<{4}, {0}>>
    /\ wire.body = <<0, 0, 0, 0, 0, 0, 1, 2, 0, 0, 0, 1, 97, 0, 0, 0>>

(***************************************************************************)
(* Client::read_all and Client::write_all.  Each call of Client::read or   *)
(* Client::write is one step: the COMPOUND is sent and the server's        *)
(* answer, or the failure of the call, comes back.  Sizes stay far below   *)
(* u32::MAX, where max_read.try_into() succeeds.                           *)
(***************************************************************************)
\* bytes of the file read by read_all
MaxFile == 3

\* bytes of the source of write_all
MaxSource == 3

\* the largest max_read and max_write a server advertises
MaxChunk == 2

\* Reads or Writes in one run
MaxOps == 5

\* the bytes of files and sources
FileBytes == {97, 98}

BytesUpTo(n) == UNION {[1..k -> FileBytes] : k \in 0..n}

\* the Client of a loop: only max_read and max_write matter
LoopClient(mr, mw) ==
    /\ phase = "none"
    /\ io = "idle"
    /\ cur = NoVal
    /\ xid = 1
    /\ sequence_id = NoClient
    /\ session = "none"
    /\ client_id = NoClient
    /\ max_read = mr
    /\ max_write = mw
    /\ supported_attrs = {}
    /\ sent = <<>>
    /\ answered = 0
    /\ rx = <<>>
    /\ aligned = TRUE
    /\ results = <<>>
    /\ last = NoVal
    /\ got = NoVal
    /\ ncalls = 0
    /\ nraw = 0

\* ReadRes { eof, data }, kept with the ReadArgs it answers
ReadOp(off, count, data, eof) ==
    [offset |-> off, count |-> count, data |-> data, eof |-> eof]

\* offset += max_read
AdvanceByCount(off, read_res) == off + read_res.count

\* offset += read_res.data.len()
Advance(off, read_res) == off + Len(read_res.data)

InitReadAll ==
    /\ \E mr \in 0..MaxChunk : LoopClient(mr, 0)
    /\ CodecUnused
    /\ FsUnused
    /\ pc = "read"
    /\ file_offset = 0
    /\ amount_read = 0
    /\ buf = <<>>
    /\ source = <<>>
    /\ consumed = <<>>
    /\ sink = <<>>
    /\ file \in BytesUpTo(MaxFile)
    /\ ops = <<>>

\* what a server may answer to a Read at off: up to count bytes of the file
\* from there, fewer if it likes, and eof as it likes
ReadReplies(off, count) ==
    {ReadOp(off, count, SubSeq(file, off + 1, off + n), eof) :
        n \in 0..Min({count, Len(file) - off}), eof \in BOOLEAN}

\* one turn of the loop of read_all with a Read that succeeds: the sink
\* takes the chunk, or fails
ReadAllRead ==
    /\ pc = "read"
    /\ Len(ops) < MaxOps
    /\ \E read_res \in ReadReplies(file_offset, max_read) : \E sink_ok \in BOOLEAN :
        /\ ops' = Append(ops, read_res)
        /\ file_offset' = Advance(file_offset, read_res)
        /\ IF sink_ok
           THEN /\ sink' = sink \o read_res.data
                /\ pc' = IF read_res.eof THEN "done" ELSE "read"
           ELSE /\ sink' = sink
                /\ pc' = "failed"
    /\ UNCHANGED <<amount_read, buf, source, consumed, file, clientVars, codecVars, fsVars>>

\* one turn of the loop with a Read that fails
ReadAllReadFails ==
    /\ pc = "read"
    /\ pc' = "failed"
    /\ UNCHANGED <<file_offset, amount_read, buf, source, consumed, sink, file, ops,
                   clientVars, codecVars, fsVars>>

NextReadAll == ReadAllRead \/ ReadAllReadFails

SpecReadAll == InitReadAll /\ [][NextReadAll]_vars

\* the bytes returned by the first n Reads
RECURSIVE ReturnedBytes(_)
ReturnedBytes(n) == IF n = 0 THEN <<>> ELSE ReturnedBytes(n - 1) \o ops[n].data

\* the server told the truth about the end of the file in every reply
EofHonest ==
    \A i \in 1..Len(ops) :
        ops[i].eof <=> (ops[i].offset + Len(ops[i].data) = Len(file))

\* C20: every Read asks for max_read bytes at the offset that is the number of
\* bytes returned so far; the sink holds the returned chunks in order, all
\* of them unless the call failed on the last one; no Read follows a reply
\* with eof, and only such a reply ends the loop with Ok, so that a short reply
\* without eof is followed by a Read at the next byte.
C20_ReadAllOffsets ==
    /\ \A i \in 1..Len(ops) :
        /\ ops[i].count = max_read
        /\ ops[i].offset = Len(ReturnedBytes(i - 1))
        /\ i < Len(ops) => ~ops[i].eof
    /\ file_offset = Len(ReturnedBytes(Len(ops)))
    /\ pc \in {"read", "done"} => sink = ReturnedBytes(Len(ops))
    /\ pc = "failed" =>
        \/ sink = ReturnedBytes(Len(ops))
        \/ Len(ops) > 0 /\ sink = ReturnedBytes(Len(ops) - 1)
    /\ pc = "done" => Len(ops) > 0 /\ ops[Len(ops)].eof
    /\ pc = "read" /\ Len(ops) > 0 => ~ops[Len(ops)].eof
    /\ pc = "done" /\ EofHonest => sink = file

\* three Reads of two bytes on a file of three: one byte, no eof; one byte,
\* no eof; one byte and eof
C20_Witness ==
    /\ pc = "done"
    /\ max_read = 2
    /\ file = <<97, 98, 97>>
    /\ Len(ops) = 3
    /\ ops[1] = ReadOp(0, 2, <<97>>, FALSE)
    /\ ops[2] = ReadOp(1, 2, <<98>>, FALSE)
    /\ ops[3] = ReadOp(2, 2, <<97>>, TRUE)
    /\ sink = file

\* WriteRes { count, .. }, kept with the WriteArgs it answers
WriteOp(off, data, count) == [offset |-> off, data |-> data, count |-> count]

\* the file after the server wrote bytes at off, the gap before them, if
\* any, zero
PutAt(f, off, bytes) ==
    [i \in 1..Max({Len(f), off + Len(bytes)}) |->
        IF i > off /\ i <= off + Len(bytes) THEN bytes[i - off]
        ELSE IF i <= Len(f) THEN f[i]
        ELSE 0]

\* the server advertised a max_write of at least 1
InitWriteAll ==
    /\ \E mw \in 1..MaxChunk : LoopClient(0, mw)
    /\ CodecUnused
    /\ FsUnused
    /\ pc = "read"
    /\ file_offset = 0
    /\ amount_read = 0
    /\ buf = <<>>
    /\ source \in BytesUpTo(MaxSource)
    /\ consumed = <<>>
    /\ sink = <<>>
    /\ file = <<>>
    /\ ops = <<>>

\* the top of the loop of write_all: source.read into a buffer of max_write
\* bytes gives 0 at the end of the source or for an empty buffer, and
\* otherwise some of the bytes the source has left
WriteAllSourceRead ==
    /\ pc = "read"
    /\ \E n \in IF source = <<>> \/ max_write = 0 THEN {0}
                ELSE 1..Min({max_write, Len(source)}) :
        /\ amount_read' = n
        /\ IF n = 0
           THEN /\ pc' = "done"
                /\ UNCHANGED <<buf, source, consumed>>
           ELSE /\ pc' = "write"
                /\ buf' = SubSeq(source, 1, n)
                /\ source' = Skip(source, n)
                /\ consumed' = consumed \o SubSeq(source, 1, n)
    /\ UNCHANGED <<file_offset, sink, file, ops, clientVars, codecVars, fsVars>>

\* source.read fails
WriteAllSourceFails ==
    /\ pc = "read"
    /\ pc' = "failed"
    /\ UNCHANGED <<file_offset, amount_read, buf, source, consumed, sink, file, ops,
                   clientVars, codecVars, fsVars>>

\* one turn of the inner loop with a Write that succeeds: the whole buf goes
\* out at offset, the server writes and acknowledges count bytes of it, and
\* buf keeps the rest; offset moves when buf is empty, by amount_read
WriteAllWrite ==
    /\ pc = "write"
    /\ Len(ops) < MaxOps
    /\ \E count \in 1..Len(buf) :
        /\ ops' = Append(ops, WriteOp(file_offset, buf, count))
        /\ file' = PutAt(file, file_offset, SubSeq(buf, 1, count))
        /\ buf' = Skip(buf, count)
        /\ IF Skip(buf, count) = <<>>
           THEN file_offset' = file_offset + amount_read /\ pc' = "read"
           ELSE file_offset' = file_offset /\ pc' = "write"
    /\ UNCHANGED <<amount_read, source, consumed, sink, clientVars, codecVars, fsVars>>

\* the counts of a WriteRes that no conforming server gives for the data sent:
\* 0, and more than the bytes sent
OtherCounts(data) == {0, Len(data) + 1, Len(data) + MaxChunk}

\* one turn of the inner loop with a Write answered Ok with such a count:
\* buf[count..] of a count of 0 is the whole buf again, and the same Write is
\* repeated; buf[count..] of a count above buf.len() is out of range and the
\* slicing panics
WriteAllWriteOtherCount ==
    /\ pc = "write"
    /\ Len(ops) < MaxOps
    /\ \E count \in OtherCounts(buf) :
        /\ ops' = Append(ops, WriteOp(file_offset, buf, count))
        /\ file' = PutAt(file, file_offset, SubSeq(buf, 1, Min({count, Len(buf)})))
        /\ IF count > Len(buf) THEN pc' = "panicked" ELSE pc' = "write"
    /\ UNCHANGED <<file_offset, amount_read, buf, source, consumed, sink, clientVars,
                   codecVars, fsVars>>

\* one turn of the inner loop with a Write that fails
WriteAllWriteFails ==
    /\ pc = "write"
    /\ pc' = "failed"
    /\ UNCHANGED <<file_offset, amount_read, buf, source, consumed, sink, file, ops,
                   clientVars, codecVars, fsVars>>

NextWriteAll ==
    WriteAllSourceRead \/ WriteAllSourceFails \/ WriteAllWrite \/ WriteAllWriteFails

SpecWriteAll == InitWriteAll /\ [][NextWriteAll]_vars

\* the source as the caller supplied it
Supplied == consumed \o source

\* the bytes acknowledged by the first n Writes
RECURSIVE Acknowledged(_)
Acknowledged(n) == IF n = 0 THEN 0 ELSE Acknowledged(n - 1) + ops[n].count

\* C19 as claimed: every Write carries the offset that is the number of source
\* bytes acknowledged so far and data that starts at that position of the
\* source, and when write_all returns Ok the file is the source.
C19_WritesLandAtSourcePosition ==
    /\ \A i \in 1..Len(ops) :
        /\ ops[i].offset = Acknowledged(i - 1)
        /\ ops[i].data = SubSeq(Supplied, Acknowledged(i - 1) + 1,
                                Acknowledged(i - 1) + Len(ops[i].data))
    /\ pc = "done" => file = Supplied

\* what holds of write_all: every Write carries data that starts at the
\* source position that is the number of bytes acknowledged so far, at the
\* offset of the start of the chunk it belongs to.
C19_WritesRepeatChunkOffset ==
    \A i \in 1..Len(ops) :
        /\ ops[i].data = SubSeq(Supplied, Acknowledged(i - 1) + 1,
                                Acknowledged(i - 1) + Len(ops[i].data))
        /\ ops[i].offset <= Acknowledged(i - 1)
        /\ ops[i].offset < Acknowledged(i - 1) =>
                i > 1 /\ ops[i - 1].count < Len(ops[i - 1].data)
                      /\ ops[i].offset = ops[i - 1].offset

\* the source "ab" with max_write 2 and a server that takes one byte at a
\* time: "b" was written over "a" at offset 0 and write_all returned Ok
C19_ShortWriteOverwrites ==
    /\ pc = "done"
    /\ max_write = 2
    /\ Supplied = <<97, 98>>
    /\ ops = <<WriteOp(0, <<97, 98>>, 1), WriteOp(0, <<98>>, 1)>>
    /\ file = <<98>>

(***************************************************************************)
(* RpcClient::receive_reply and the fragment it reads.  The header is read, *)
(* then the message is decoded from a reader limited to the announced       *)
(* length (io::Read::take): the decoder takes the bytes the message needs   *)
(* and the limited reader is dropped, nothing reads the bytes of the        *)
(* fragment the decoding did not ask for.                                   *)
(***************************************************************************)
\* C30: after receive_reply returns from reading a fragment, the header and all
\* the bytes it announces have been consumed, so the read side of the stream is
\* at the next fragment header; also when the message decoded is shorter than
\* the announced length and when the result is a reply-level error.
C30_FragmentConsumed ==
    io = "idle" /\ got # NoVal => aligned

\* a fragment that announces more bytes than its message takes has been read:
\* the call returned the message's result and the rest of the fragment is
\* still in the stream
C30_TrailingBytesLeft ==
    /\ io = "idle"
    /\ got # NoVal
    /\ got.extra
    /\ got.rpc = "Success"
    /\ last.tag = "Ok"
    /\ ~aligned

(***************************************************************************)
(* ReturnSecond(A, B), checked under SpecCompound: cur is the geometry of   *)
(* the request written, got the reply read and last the result returned.    *)
(***************************************************************************)
RECURSIVE LeafNames(_)
RECURSIVE LeafNamesFrom(_, _)

LeafNamesFrom(geos, i) ==
    IF i > Len(geos) THEN <<>>
    ELSE LeafNames(geos[i]) \o LeafNamesFrom(geos, i + 1)

\* the operations a request of this shape stands for, left to right
LeafNames(geo) ==
    IF geo.kind = "op" THEN <<geo.name>> ELSE LeafNamesFrom(geo.elems, 1)

\* the reply at position i answers the op expected there and succeeded
GoodAt(ra, names, i) ==
    /\ i <= Len(ra)
    /\ ra[i].name = names[i]
    /\ ra[i].status = "Ok"

\* the error the reply at position i stands for
ErrorAt(ra, names, i) ==
    IF i > Len(ra) THEN CompoundResponseMismatch("too few replies")
    ELSE IF ra[i].name # names[i] THEN CompoundResponseMismatch("expected")
    ELSE Protocol(ra[i].status)

\* the first position among 1..n whose reply is missing, of another op or failed
FirstBad(ra, names, n) ==
    IF \E i \in 1..n : ~GoodAt(ra, names, i)
    THEN CHOOSE i \in 1..n :
            ~GoodAt(ra, names, i) /\ \A j \in 1..(i - 1) : GoodAt(ra, names, j)
    ELSE 0

C29_Of(geo, args, reply, res) ==
    LET A == geo.elems[1]
        B == geo.elems[2]
        na == Len(LeafNames(A))
        nb == Len(LeafNames(B))
        names == LeafNames(A) \o LeafNames(B)
        ra == reply.res_array
        bad == FirstBad(ra, names, na)
        left == ProcessReply(ra, geo).rest
    IN  /\ Names(args) = names
        /\ reply.status = "Ok" /\ bad # 0 =>
                /\ res = ErrorAt(ra, names, bad)
                /\ left = SubSeq(ra, bad + 1, Len(ra))
                /\ \A i \in (na + 1)..Len(ra) : left[i - bad] = ra[i]
        /\ reply.status = "Ok" /\ bad = 0 /\ nb = 1 =>
                /\ left = SubSeq(ra, na + 2, Len(ra))
                /\ IF ~GoodAt(ra, names, na + 1) THEN res = ErrorAt(ra, names, na + 1)
                   ELSE IF Len(ra) > na + 1
                        THEN res = CompoundResponseMismatch("trailing response")
                        ELSE res = Ok(ra[na + 1].val) /\ res.val = na + 1

\* C29: ReturnSecond(A, B) writes A's ops followed by B's ops, takes A's replies
\* and then B's from the front of the reply queue and returns B's result, A's
\* being dropped; when one of A's replies is missing, of another op or an
\* error, that error is the result and none of the replies after A's is taken.
C29_ReturnSecond ==
    io = "idle" /\ got # NoVal /\ cur # NoVal /\ cur.kind = "rs" =>
        C29_Of(cur, sent[1].args, got, last)

\* PutFh and one LookUp as A and GetFh as B, all three answered: the result is
\* the value of the third reply
C29_Witness ==
    /\ io = "idle"
    /\ got # NoVal
    /\ cur = Geometry(ReturnSecond(Tup(<<Op("PutFh", NoArg), LookUpVec(1)>>),
                                   Op("GetFh", NoArg)))
    /\ Names(sent[1].args) = <<"PutFh", "LookUp", "GetFh">>
    /\ last = Ok(3)

\* A's second reply is an error and B's reply is there: the error is returned
C29_WitnessAFails ==
    /\ io = "idle"
    /\ got # NoVal
    /\ cur = Geometry(ReturnSecond(Tup(<<Op("PutFh", NoArg), LookUpVec(1)>>),
                                   Op("GetFh", NoArg)))
    /\ got.status = "Ok"
    /\ Len(got.res_array) = 3
    /\ got.res_array[2].status = "Access"
    /\ got.res_array[3].status = "Ok"
    /\ last = Protocol("Access")

(***************************************************************************)
(* The methods of a ready Client against a conforming server.  The server   *)
(* is the environment: it exports a root directory that holds the          *)
(* directory "files", and plain files in "files".  A method call is one    *)
(* COMPOUND: the request is built, wrapped by Client::do_compound, the      *)
(* server executes the ops in order and stops at the first that fails, and  *)
(* the reply goes through ClientWithoutSession::do_compound.                *)
(***************************************************************************)
\* method calls in one run
MaxFsCalls == 3

\* FileAttributeId::Size, TimeAccessSet, TimeModifySet
SizeId == 4

TimeAccessSetId == 48

TimeModifySetId == 54

CurDir == [kind |-> "CurDir"]

ParentDir == [kind |-> "ParentDir"]

\* a path: whether it starts with '/', and what stands between the '/'
Path(has_root, segs) == [has_root |-> has_root, segs |-> segs]

RECURSIVE ComponentsFrom(_, _)
ComponentsFrom(segs, first) ==
    IF segs = <<>> THEN <<>>
    ELSE LET rest == ComponentsFrom(Tail(segs), FALSE)
         IN  CASE Head(segs) = "" -> rest
               [] Head(segs) = "." -> IF first THEN <<CurDir>> \o rest ELSE rest
               [] Head(segs) = ".." -> <<ParentDir>> \o rest
               [] OTHER -> <<Normal(Head(segs))>> \o rest

\* path.as_ref().components(): repeated separators and "." (but a leading one)
\* are normalized away, ".." is kept
Components(path) ==
    IF path.has_root THEN <<RootDir>> \o ComponentsFrom(path.segs, FALSE)
    ELSE ComponentsFrom(path.segs, TRUE)

\* "/", "/files/a_file", "/files/b_file", "./files//./a_file", "/files/../files"
FsPaths ==
    {Path(TRUE, <<>>),
     Path(TRUE, <<"files", "a_file">>),
     Path(TRUE, <<"files", "b_file">>),
     Path(FALSE, <<".", "files", "", ".", "a_file">>),
     Path(TRUE, <<"files", "..", "files">>)}

\* the path of a file of /files
FilePath(name) == Path(TRUE, <<"files", name>>)

\* the names a caller creates, removes, and renames from and to
CreateNames == {"b_file"}

RemoveNames == {"a_file"}

RenamePairs == {<<"a_file", "b_file">>}

\* supported_attrs.remove(id)
EnumSetRemove(set, id) == set \ {id}

GetAttrArgsWithSetTimes(supported) == [attr_request |-> supported]

\* Client::get_attr, the GetAttrArgs
GetAttrArgs(supported) ==
    [attr_request |->
        EnumSetRemove(EnumSetRemove(supported, TimeAccessSetId), TimeModifySetId)]

\* Client::get_attr
GetAttrRequest(path, supported) ==
    ReturnSecond(Tup(<<Op("PutRootFh", NoArg), Vec(LookUps(Components(path)))>>),
                 Op("GetAttr", GetAttrArgs(supported)))

OpenArgsNoOwner(name, cid, owner_id) ==
    [sequence_id |-> 0, share_access |-> "WRITE", share_deny |-> "NONE",
     owner |-> [client_id |-> NoClient, opaque |-> <<>>],
     open_how |-> [flag |-> "OpenCreate",
                   how |-> [kind |-> "Exclusive", create_verifier |-> 0]],
     claim |-> [kind |-> "Null", file |-> name]]

\* Client::create_file, the OpenArgs
OpenArgs(name, cid, owner_id) ==
    [sequence_id |-> 0, share_access |-> "WRITE", share_deny |-> "NONE",
     owner |-> [client_id |-> cid, opaque |-> owner_id],
     open_how |-> [flag |-> "OpenCreate",
                   how |-> [kind |-> "Exclusive", create_verifier |-> 0]],
     claim |-> [kind |-> "Null", file |-> name]]

\* Client::create_file
CreateFileRequest(parent, name, cid, owner_id) ==
    ReturnSecond(Tup(<<Op("PutFh", [object |-> parent]),
                       Op("Open", OpenArgs(name, cid, owner_id))>>),
                 Op("GetFh", NoArg))

\* Client::remove: PutFh(parent), Remove
RemoveRequest(parent, name) ==
    ReturnSecond(Op("PutFh", [object |-> parent]), Op("Remove", [target |-> name]))

\* Client::rename: PutFh(src_parent), SaveFh, PutFh(dst_parent), Rename
RenameRequest(src_parent, dst_parent, old, new) ==
    ReturnSecond(Tup(<<Op("PutFh", [object |-> src_parent]), Op("SaveFh", NoArg),
                       Op("PutFh", [object |-> dst_parent])>>),
                 Op("Rename", [old_name |-> old, new_name |-> new]))

\* Client::set_attr: PutFh(handle), SetAttr
SetAttrRequest(handle, attrs) ==
    ReturnSecond(Op("PutFh", [object |-> handle]),
                 Op("SetAttr", [state_id |-> 0, object_attributes |-> attrs]))

(***************************************************************************)
(* The conforming server.                                                   *)
(***************************************************************************)
RootHandle == "root"

FilesHandle == "files"

NoHandle == "none"

\* the handle of the n-th file created
FileHandle(n) == "f" \o ToString(n)

DirEntry(name, c, object) == [name |-> name, cookie |-> c, object |-> object]

\* the files of the server: the entries of /files in directory order, the size
\* of every file that exists, the number of files ever created
Files(dir, size, made) == [dir |-> dir, size |-> size, made |-> made]

IsDirectory(h) == h \in {RootHandle, FilesHandle}

IsFile(f, h) == h \in DOMAIN f.size

Named(f, name) == {i \in 1..Len(f.dir) : f.dir[i].name = name}

Without(dir, name) == SelectSeq(dir, LAMBDA e : e.name # name)

\* what a name in a directory stands for, NoHandle when there is none
Child(f, dirh, name) ==
    IF dirh = RootHandle
    THEN IF name = "files" THEN FilesHandle ELSE NoHandle
    ELSE IF Named(f, name) = {} THEN NoHandle
         ELSE f.dir[CHOOSE i \in Named(f, name) : TRUE].object

\* the state of the server inside a COMPOUND: the files, the current and the
\* saved filehandle, and the result of the op just executed
Srv(f, cfh, sfh, res) == [fs |-> f, cfh |-> cfh, sfh |-> sfh, res |-> res]

Fail(st, name, e) == [st EXCEPT !.res = ResErr(name, e)]

SizeOf(f, h) == IF IsFile(f, h) THEN f.size[h] ELSE 0

\* one op executed by the server
ExecOp(st, op) ==
    LET f == st.fs
        name == op.name
        ok(v) == [st EXCEPT !.res = ResOk(name, v)]
    IN  CASE name = "Sequence" -> ok(NoVal)
          [] name = "PutRootFh" -> [ok(NoVal) EXCEPT !.cfh = RootHandle]
          [] name = "PutFh" ->
                IF IsDirectory(op.arg.object) \/ IsFile(f, op.arg.object)
                THEN [ok(NoVal) EXCEPT !.cfh = op.arg.object]
                ELSE Fail(st, name, "Stale")
          [] name = "SaveFh" ->
                IF st.cfh = NoHandle THEN Fail(st, name, "NoFileHandle")
                ELSE [ok(NoVal) EXCEPT !.sfh = st.cfh]
          [] name = "GetFh" ->
                IF st.cfh = NoHandle THEN Fail(st, name, "NoFileHandle")
                ELSE ok([object |-> st.cfh])
          [] name = "LookUp" ->
                IF st.cfh = NoHandle THEN Fail(st, name, "NoFileHandle")
                ELSE IF ~IsDirectory(st.cfh) THEN Fail(st, name, "NotDir")
                ELSE IF Child(f, st.cfh, op.arg.object_name) = NoHandle
                     THEN Fail(st, name, "NoEnt")
                     ELSE [ok(NoVal) EXCEPT !.cfh = Child(f, st.cfh, op.arg.object_name)]
          [] name = "GetAttr" ->
                IF st.cfh = NoHandle THEN Fail(st, name, "NoFileHandle")
                ELSE IF op.arg.attr_request \cap {TimeAccessSetId, TimeModifySetId} # {}
                     THEN Fail(st, name, "Inval")
                     ELSE ok([object_attributes |->
                                [id \in op.arg.attr_request \cap {SizeId}
                                    |-> AttrU64(SizeOf(f, st.cfh))]])
          [] name = "Open" ->
                IF st.cfh = NoHandle THEN Fail(st, name, "NoFileHandle")
                ELSE IF ~IsDirectory(st.cfh) THEN Fail(st, name, "NotDir")
                ELSE IF st.cfh = RootHandle THEN Fail(st, name, "Access")
                ELSE IF Named(f, op.arg.claim.file) # {} THEN Fail(st, name, "Exist")
                ELSE LET h == FileHandle(f.made + 1)
                     IN  [ok(NoVal) EXCEPT
                            !.cfh = h,
                            !.fs = Files(Append(f.dir,
                                                DirEntry(op.arg.claim.file, f.made + 1, h)),
                                         f.size @@ (h :> 0), f.made + 1)]
          [] name = "Remove" ->
                IF st.cfh = NoHandle THEN Fail(st, name, "NoFileHandle")
                ELSE IF ~IsDirectory(st.cfh) THEN Fail(st, name, "NotDir")
                ELSE IF st.cfh = RootHandle THEN Fail(st, name, "Access")
                ELSE IF Named(f, op.arg.target) = {} THEN Fail(st, name, "NoEnt")
                ELSE LET h == Child(f, st.cfh, op.arg.target)
                     IN  [ok(NoVal) EXCEPT
                            !.fs = Files(Without(f.dir, op.arg.target),
                                         [x \in DOMAIN f.size \ {h} |-> f.size[x]],
                                         f.made)]
          [] name = "Rename" ->
                IF st.cfh = NoHandle \/ st.sfh = NoHandle
                THEN Fail(st, name, "NoFileHandle")
                ELSE IF ~IsDirectory(st.cfh) \/ ~IsDirectory(st.sfh)
                     THEN Fail(st, name, "NotDir")
                ELSE IF st.cfh = RootHandle \/ st.sfh = RootHandle
                     THEN Fail(st, name, "Access")
                ELSE IF Named(f, op.arg.old_name) = {} THEN Fail(st, name, "NoEnt")
                ELSE IF op.arg.old_name = op.arg.new_name THEN ok(NoVal)
                ELSE LET h == Child(f, st.sfh, op.arg.old_name)
                         gone == Child(f, st.cfh, op.arg.new_name)
                         kept == Without(f.dir, op.arg.new_name)
                     IN  [ok(NoVal) EXCEPT
                            !.fs = Files([i \in 1..Len(kept) |->
                                            IF kept[i].name = op.arg.old_name
                                            THEN [kept[i] EXCEPT !.name = op.arg.new_name]
                                            ELSE kept[i]],
                                         [x \in DOMAIN f.size \ {gone} |-> f.size[x]],
                                         f.made)]
          [] name = "SetAttr" ->
                IF st.cfh = NoHandle THEN Fail(st, name, "NoFileHandle")
                ELSE IF IsDirectory(st.cfh) THEN Fail(st, name, "IsDir")
                ELSE IF DOMAIN op.arg.object_attributes \subseteq {SizeId}
                     THEN [ok([attr_set |-> DOMAIN op.arg.object_attributes]) EXCEPT
                            !.fs = IF SizeId \in DOMAIN op.arg.object_attributes
                                   THEN [f EXCEPT !.size[st.cfh] =
                                            op.arg.object_attributes[SizeId].v]
                                   ELSE f]
                     ELSE Fail(st, name, "AttrNotSupp")
          [] OTHER -> Fail(st, name, "NotSupp")

RECURSIVE ExecFrom(_, _, _, _)

\* the ops in order up to the first that fails: the files left and the results
ExecFrom(st, args, i, out) ==
    IF i > Len(args) THEN [fs |-> st.fs, status |-> "Ok", res_array |-> out]
    ELSE LET nx == ExecOp(st, args[i])
         IN  IF nx.res.status = "Ok" THEN ExecFrom(nx, args, i + 1, Append(out, nx.res))
             ELSE [fs |-> nx.fs, status |-> nx.res.status,
                   res_array |-> Append(out, nx.res)]

\* the COMPOUND executed: the files afterwards and the reply
ServerExec(f, args) ==
    LET r == ExecFrom(Srv(f, NoHandle, NoHandle, NoVal), args, 1, <<>>)
    IN  [fs |-> r.fs, reply |-> CompoundRes(r.status, r.res_array)]

\* a SetAttrStatusResult: the status and the SetAttrRes
SetAttrStatusResult(status, attr_set) ==
    [name |-> "SetAttr", status |-> status, val |-> [attr_set |-> attr_set]]

\* what no conforming server sends: the SetAttr op refused, nothing set, and
\* the COMPOUND reported as Ok
SetAttrRefused(f, args) ==
    [fs |-> f,
     reply |-> CompoundRes("Ok", [i \in 1..Len(args) |->
                    IF args[i].name = "SetAttr" THEN SetAttrStatusResult("Access", {})
                    ELSE DefaultOk(args[i].name)])]

\* what the server may do with the COMPOUND of a method
Outcomes(f, method, args) ==
    {ServerExec(f, args)}
        \cup (IF method = "set_attr" THEN {SetAttrRefused(f, args)} ELSE {})

(***************************************************************************)
(* The ready Client and its method calls.                                   *)
(***************************************************************************)
\* the directories a caller renames from and to
RenameDirs == {<<FilesHandle, FilesHandle>>, <<RootHandle, FilesHandle>>}

\* sizes a caller sets
Sizes == {2}

\* owner ids random_client_owner may generate
OwnerIds == {<<7>>, <<9>>}

\* the Client that Client::new returns after a handshake answered by a
\* conforming server: three messages written and answered, the identifiers and
\* the root attributes recorded, the sequence counter advanced by the third
ReadyClient(cid, sid, owner_id, attrs) ==
    LET root == WithSequence(sid, 1, RootAttrsRequest)
    IN  /\ phase = "ready"
        /\ io = "idle"
        /\ cur = Geometry(root)
        /\ xid = XidNext(XidNext(XidNext(1)))
        /\ sequence_id = SequenceIdIncr(1)
        /\ session = sid
        /\ client_id = cid
        /\ client_owner = owner_id
        /\ max_read = RecordedMaxRead(attrs)
        /\ max_write = RecordedMaxWrite(attrs)
        /\ supported_attrs = RecordedSupportedAttrs(attrs)
        /\ sent = <<CallMessage(1, IntoArgArray(ExchangeIdRequest)),
                    CallMessage(XidNext(1), IntoArgArray(CreateSessionRequest(cid))),
                    CallMessage(XidNext(XidNext(1)), IntoArgArray(root))>>
        /\ answered = Len(sent)
        /\ rx = <<>>
        /\ aligned = TRUE
        /\ results = <<"Ok", "Ok", "Ok">>
        /\ last = Ok([object_attributes |-> attrs])
        /\ got = CompoundRes("Ok", AllOk(IntoArgArray(root), [object_attributes |-> attrs]))
        /\ ncalls = 1
        /\ nraw = Len(sent)

\* the handshakes the runs start from
Handshakes ==
    {<<cid, sid, o, a>> \in ClientIds \X SessionIds \X OwnerIds \X AttrReplies :
        /\ RootAttrsUsable(a)
        /\ (cid = 101) = (sid = "s1")
        /\ (cid = 101) = (o = <<7>>)
        /\ (cid = 101) = (TimeAccessSetId \in RecordedSupportedAttrs(a))}

\* /files holds the empty file a_file
InitialFiles ==
    {Files(<<DirEntry("a_file", 1, FileHandle(1))>>, (FileHandle(1) :> 0), 1)}

InitFs ==
    /\ \E h \in Handshakes : ReadyClient(h[1], h[2], h[3], h[4])
    /\ fs \in InitialFiles
    /\ calls = <<>>
    /\ cookie = 0
    /\ entries = <<>>
    /\ CodecUnused
    /\ LoopUnused

Call(method, arg, res) == [method |-> method, arg |-> arg, res |-> res]

\* one method call that is one COMPOUND; project is the field of the last op's
\* result the method returns
MethodCall(method, arg, req, project) ==
    \E wrapped \in {WithSequence(session, sequence_id, req)} :
    \E args \in {IntoArgArray(wrapped)} :
    \E out \in Outcomes(fs, method, args) :
    \E res \in {CompoundResult(Geometry(wrapped), out.reply)} :
        /\ phase = "ready"
        /\ io = "idle"
        /\ Len(calls) < MaxFsCalls
        /\ sent' = Append(sent, CallMessage(xid, args))
        /\ xid' = XidNext(xid)
        /\ sequence_id' = SequenceIdIncr(sequence_id)
        /\ cur' = Geometry(wrapped)
        /\ answered' = answered + 1
        /\ got' = out.reply
        /\ last' = res
        /\ results' = Append(results, res.tag)
        /\ ncalls' = ncalls + 1
        /\ nraw' = nraw + 1
        /\ fs' = out.fs
        /\ calls' = Append(calls,
                Call(method, arg,
                     IF IsOk(res) /\ project # "" THEN Ok(res.val[project]) ELSE res))
        /\ UNCHANGED <<phase, io, session, client_id, max_read, max_write,
                       supported_attrs, rx, aligned, client_owner, cookie, entries>>
        /\ UNCHANGED <<codecVars, loopVars>>

\* the file handles a caller may hold: one of every file created
CallerHandles == {FileHandle(n) : n \in 1..fs.made}

LookUpCall ==
    \E p \in FsPaths :
        MethodCall("look_up", [path |-> p], LookUpRequest(Components(p)), "object")

GetAttrCall ==
    \E p \in FsPaths :
        /\ Len(p.segs) = 2
        /\ MethodCall("get_attr", [path |-> p], GetAttrRequest(p, supported_attrs), "")

CreateFileCall ==
    \E parent \in {FilesHandle}, name \in CreateNames :
        MethodCall("create_file", [parent |-> parent, name |-> name],
                   CreateFileRequest(parent, name, client_id, client_owner), "object")

RemoveCall ==
    \E name \in RemoveNames :
        MethodCall("remove", [parent |-> FilesHandle, name |-> name],
                   RemoveRequest(FilesHandle, name), "")

RenameCall ==
    \E r \in RenamePairs, d \in RenameDirs :
        MethodCall("rename", [src_parent |-> d[1], dst_parent |-> d[2],
                              old |-> r[1], new |-> r[2]],
                   RenameRequest(d[1], d[2], r[1], r[2]), "")

SetAttrCall ==
    \E handle \in CallerHandles, s \in Sizes :
        MethodCall("set_attr", [handle |-> handle, attrs |-> (SizeId :> AttrU64(s))],
                   SetAttrRequest(handle, (SizeId :> AttrU64(s))), "")

NextFs ==
    LookUpCall \/ GetAttrCall \/ CreateFileCall \/ RemoveCall \/ RenameCall \/ SetAttrCall

SpecFs == InitFs /\ [][NextFs]_vars

(***************************************************************************)
(* Properties of the methods, checked under SpecFs.  The last element of    *)
(* calls is the call that wrote the last message of sent and read got.      *)
(***************************************************************************)
LastCall == calls[Len(calls)]

LastArgs == sent[Len(sent)].args

LastIs(method) == calls # <<>> /\ LastCall.method = method

\* the segments of a path that name something
NameSegs(path) == SelectSeq(path.segs, LAMBDA s : s \notin {"", ".", ".."})

\* what the names lead to from the root of the server, NoHandle when a name is
\* missing on the way
RECURSIVE Resolve(_, _, _)
Resolve(f, h, names) ==
    IF names = <<>> \/ h = NoHandle THEN h
    ELSE Resolve(f, IF IsDirectory(h) THEN Child(f, h, Head(names)) ELSE NoHandle,
                 Tail(names))

\* C24: look_up(path) sends, after the Sequence op, PutRootFh, one LookUp for
\* each normal component of the path in path order and GetFh, and returns the
\* handle of the GetFh reply; root, current-directory, parent-directory and
\* empty components give no op; look_up("/") sends no LookUp and returns
\* the handle of the root.
C24_LookUpOps ==
    LastIs("look_up") =>
        LET names == NameSegs(LastCall.arg.path)
            n == Len(names)
        IN  /\ Names(LastArgs) =
                    <<"Sequence", "PutRootFh">> \o [i \in 1..n |-> "LookUp"] \o <<"GetFh">>
            /\ \A i \in 1..n : LastArgs[2 + i].arg = [object_name |-> names[i]]
            /\ IsOk(LastCall.res) =>
                    /\ Len(got.res_array) = n + 3
                    /\ LastCall.res = Ok(got.res_array[n + 3].val.object)
                    /\ LastCall.res = Ok(Resolve(fs, RootHandle, names))
            /\ LastCall.arg.path = Path(TRUE, <<>>) =>
                    /\ Names(LastArgs) = <<"Sequence", "PutRootFh", "GetFh">>
                    /\ LastCall.res = Ok(RootHandle)

\* look_up("./files//./a_file") sent two LookUps and returned the handle of
\* /files/a_file
C24_Witness ==
    /\ LastIs("look_up")
    /\ LastCall.arg.path = Path(FALSE, <<".", "files", "", ".", "a_file">>)
    /\ Names(LastArgs) = <<"Sequence", "PutRootFh", "LookUp", "LookUp", "GetFh">>
    /\ LastArgs[3].arg.object_name = "files"
    /\ LastArgs[4].arg.object_name = "a_file"
    /\ LastCall.res = Ok(FileHandle(1))

\* look_up("/files/../files"): the parent-directory component gave no op, the
\* two names were looked up one inside the other and the second is not there
C24_WitnessParentDir ==
    /\ LastIs("look_up")
    /\ LastCall.arg.path = Path(TRUE, <<"files", "..", "files">>)
    /\ Names(LastArgs) = <<"Sequence", "PutRootFh", "LookUp", "LookUp", "GetFh">>
    /\ LastCall.res = Protocol("NoEnt")

C23_Request ==
    LastIs("get_attr") =>
        LET op == LastArgs[Len(LastArgs)]
        IN  /\ op.name = "GetAttr"
            /\ op.arg.attr_request = supported_attrs \ {TimeAccessSetId, TimeModifySetId}
            /\ TimeAccessSetId \notin op.arg.attr_request
            /\ TimeModifySetId \notin op.arg.attr_request
            /\ \A id \in supported_attrs :
                    id \notin {TimeAccessSetId, TimeModifySetId} => id \in op.arg.attr_request
            /\ Cardinality({i \in 1..Len(LastArgs) : LastArgs[i].name = "GetAttr"}) = 1

C23_Step ==
    LastIs("get_attr")' /\ calls' # calls => supported_attrs' = supported_attrs

\* C23: the GetAttr op that get_attr sends requests exactly the recorded
\* supported attributes without TimeAccessSet and TimeModifySet: the two are
\* never requested, every other supported id is, and the call leaves the
\* Client's recorded supported set as it was.
C23_GetAttrRequest ==
    /\ []C23_Request
    /\ [][C23_Step]_vars

\* get_attr("/files/a_file") by a Client whose supported set holds
\* TimeModifySet: the server answered with the size, and the set still holds it
C23_Witness ==
    /\ LastIs("get_attr")
    /\ LastCall.arg.path = FilePath("a_file")
    /\ supported_attrs = {0, 1, 4, 54}
    /\ LastArgs[Len(LastArgs)].arg.attr_request = {0, 1, 4}
    /\ IsOk(LastCall.res)
    /\ LastCall.res.val.object_attributes[SizeId] = AttrU64(0)

\* the call before the last one
PrevCall == calls[Len(calls) - 1]

PrevWas(method) == Len(calls) >= 2 /\ PrevCall.method = method

C25_Of(parent, name) ==
    /\ Names(LastArgs) = <<"Sequence", "PutFh", "Open", "GetFh">>
    /\ LastArgs[2].arg = [object |-> parent]
    /\ LastArgs[3].arg.sequence_id = 0
    /\ LastArgs[3].arg.share_access = "WRITE"
    /\ LastArgs[3].arg.owner = [client_id |-> client_id, opaque |-> client_owner]
    /\ client_id \in ClientIds
    /\ client_owner \in OwnerIds
    /\ LastArgs[3].arg.open_how =
            [flag |-> "OpenCreate", how |-> [kind |-> "Exclusive", create_verifier |-> 0]]
    /\ LastArgs[3].arg.claim = [kind |-> "Null", file |-> name]
    /\ IsOk(LastCall.res) =>
            /\ Len(got.res_array) = Len(LastArgs)
            /\ LastCall.res = Ok(got.res_array[Len(LastArgs)].val.object)

\* C25: create_file(parent, name) sends, after the Sequence op, PutFh(parent),
\* an Open with sequence id 0, share access Write, the owner made of the
\* client id of ExchangeId and the owner id generated at the handshake,
\* exclusive create with verifier 0 and claim Null{name}, then GetFh; it
\* returns the handle of the GetFh reply, and a look_up of the created path
\* that follows succeeds with that handle.
C25_CreateFile ==
    /\ LastIs("create_file") => C25_Of(LastCall.arg.parent, LastCall.arg.name)
    /\ PrevWas("create_file") /\ IsOk(PrevCall.res) /\ LastIs("look_up")
        /\ LastCall.arg.path = FilePath(PrevCall.arg.name) =>
            LastCall.res = PrevCall.res

\* b_file created in /files by the Client 102 with owner id 9, then looked up
C25_Witness ==
    /\ PrevWas("create_file")
    /\ PrevCall.arg.name = "b_file"
    /\ PrevCall.res = Ok(FileHandle(2))
    /\ client_id = 102
    /\ sent[Len(sent) - 1].args[3].arg.owner = [client_id |-> 102, opaque |-> <<9>>]
    /\ LastIs("look_up")
    /\ LastCall.arg.path = FilePath("b_file")
    /\ LastCall.res = Ok(FileHandle(2))

\* the call two before the last one
PrevPrevCall == calls[Len(calls) - 2]

\* the Client after a call returned: ready for the next one, the stream at a
\* fragment header, the counters one past the calls made
Usable ==
    /\ phase = "ready"
    /\ io = "idle"
    /\ rx = <<>>
    /\ aligned
    /\ sequence_id = 1 + ncalls
    /\ xid = 1 + Len(sent)

\* C26: once remove(parent, name) has succeeded on an existing file, a look_up
\* of that path fails with the protocol error NoEnt, and the session remains
\* usable: the Client is ready for the next call, and a call that follows gets
\* its own answer.
C26_RemoveThenLookUp ==
    /\ PrevWas("remove") /\ IsOk(PrevCall.res) /\ LastIs("look_up")
        /\ LastCall.arg.path = FilePath(PrevCall.arg.name) =>
            /\ LastCall.res = Protocol("NoEnt")
            /\ Usable
    /\ Len(calls) >= 3 /\ PrevPrevCall.method = "remove" /\ IsOk(PrevPrevCall.res)
        /\ PrevCall.method = "look_up"
        /\ PrevCall.arg.path = FilePath(PrevPrevCall.arg.name)
        /\ LastIs("look_up") /\ LastCall.arg.path = Path(TRUE, <<>>) =>
            /\ LastCall.res = Ok(RootHandle)
            /\ Usable

\* a_file removed, its look_up failed with NoEnt, and the look_up of "/" after
\* that returned the root handle
C26_Witness ==
    /\ Len(calls) = 3
    /\ calls[1] = Call("remove", [parent |-> FilesHandle, name |-> "a_file"], Ok(NoVal))
    /\ calls[2] = Call("look_up", [path |-> FilePath("a_file")], Protocol("NoEnt"))
    /\ calls[3] = Call("look_up", [path |-> Path(TRUE, <<>>)], Ok(RootHandle))
    /\ fs.dir = <<>>
    /\ Usable

C27_Of(c) ==
    /\ Names(LastArgs) = <<"Sequence", "PutFh", "SaveFh", "PutFh", "Rename">>
    /\ LastArgs[2].arg = [object |-> c.arg.src_parent]
    /\ LastArgs[4].arg = [object |-> c.arg.dst_parent]
    /\ LastArgs[5].arg = [old_name |-> c.arg.old, new_name |-> c.arg.new]

C27_WitnessTwoHandles ==
    /\ LastIs("rename")
    /\ LastArgs[2].arg.object = RootHandle
    /\ LastArgs[4].arg.object = FilesHandle
    /\ ~IsOk(LastCall.res)

\* the reply read answers every op as a conforming server does: the status of
\* the COMPOUND is the status of its last result
Conforming(r) ==
    r.res_array # <<>> /\ r.status = r.res_array[Len(r.res_array)].status

\* C28: once set_attr(handle, attrs) with Size = s has succeeded, a get_attr of
\* the same file reports Size = s; and a SetAttr reply whose status is an error
\* is returned as that protocol error, never as a success.
C28_SetAttr ==
    /\ PrevWas("set_attr") /\ IsOk(PrevCall.res) /\ LastIs("get_attr")
        /\ Resolve(fs, RootHandle, NameSegs(LastCall.arg.path)) = PrevCall.arg.handle =>
            /\ IsOk(LastCall.res)
            /\ HasAs(LastCall.res.val.object_attributes, SizeId, "u64")
            /\ LastCall.res.val.object_attributes[SizeId] = PrevCall.arg.attrs[SizeId]
    /\ LastIs("set_attr") =>
            /\ Names(LastArgs) = <<"Sequence", "PutFh", "SetAttr">>
            /\ \A i \in 1..Len(got.res_array) :
                    got.res_array[i].name = "SetAttr" /\ got.res_array[i].status # "Ok" =>
                        LastCall.res = Protocol(got.res_array[i].status)
            /\ IsOk(LastCall.res) =>
                    /\ Conforming(got)
                    /\ fs.size[LastCall.arg.handle] = LastCall.arg.attrs[SizeId].v

\* the size of a_file set to 2 and reported as 2 by the get_attr that followed
C28_Witness ==
    /\ PrevWas("set_attr")
    /\ PrevCall.arg.handle = FileHandle(1)
    /\ PrevCall.arg.attrs = (SizeId :> AttrU64(2))
    /\ IsOk(PrevCall.res)
    /\ LastIs("get_attr")
    /\ LastCall.arg.path = FilePath("a_file")
    /\ LastCall.res.val.object_attributes[SizeId] = AttrU64(2)

\* a SetAttr refused inside a COMPOUND reported as Ok: the call failed
C28_WitnessRefused ==
    /\ LastIs("set_attr")
    /\ got.status = "Ok"
    /\ got.res_array[3] = SetAttrStatusResult("Access", {})
    /\ LastCall.res = Protocol("Access")
    /\ fs.size[FileHandle(1)] = 0

(***************************************************************************)
(* Client::read_dir: the loop of ReadDir COMPOUNDs over one directory that  *)
(* does not change meanwhile.                                               *)
(***************************************************************************)
\* entries of the directory read
MaxDir == 3

\* the directory of n entries: names a_file0, a_file1, .. with growing cookies
\* that are not the positions
Directory(n) ==
    [i \in 1..n |-> DirEntry("a_file" \o ToString(i - 1), i + 2, FileHandle(i))]

\* a request for every supported attribute, the two that can only be set too
ReadDirAttrRequestWithSetTimes(supported) == supported

\* Client::read_dir, the first three lines: the attributes asked for
ReadDirAttrRequest(supported) ==
    EnumSetRemove(EnumSetRemove(supported, TimeAccessSetId), TimeModifySetId)

\* ReadDirArgs and the DirectoryList that answers it
ReadDirOp(c, attr_request, page, eof) ==
    [cookie |-> c, cookie_verifier |-> 0, directory_count |-> 1000, max_count |-> 1000,
     attr_request |-> attr_request, entries |-> page, eof |-> eof]

\* the entries of the directory after the cookie
After(dir, c) == SelectSeq(dir, LAMBDA e : e.cookie > c)

\* what a server that pages by cookie may answer: some of the entries after the
\* cookie, in order, and eof as it likes
ReadDirReplies(c) ==
    {ReadDirOp(c, ReadDirAttrRequest(supported_attrs), SubSeq(After(fs.dir, c), 1, n), eof) :
        n \in 0..Len(After(fs.dir, c)), eof \in BOOLEAN}

NextCookieByCount(all) == Len(all)

\* cookie = entries.last().unwrap().cookie
NextCookie(all) == all[Len(all)].cookie

InitReadDir ==
    /\ \E h \in Handshakes : ReadyClient(h[1], h[2], h[3], h[4])
    /\ CodecUnused
    /\ pc = "read_dir"
    /\ file_offset = 0
    /\ amount_read = 0
    /\ buf = <<>>
    /\ source = <<>>
    /\ consumed = <<>>
    /\ sink = <<>>
    /\ file = <<>>
    /\ ops = <<>>
    /\ \E n \in 0..MaxDir :
            fs = Files(Directory(n), [h \in {FileHandle(i) : i \in 1..n} |-> 0], n)
    /\ calls = <<>>
    /\ cookie = 0
    /\ entries = <<>>

\* one turn of the loop with a ReadDir that succeeds: the page is appended; the
\* loop ends at eof, and goes on from the last entry otherwise, which panics
\* when there is no entry yet
ReadDirRead ==
    /\ pc = "read_dir"
    /\ Len(ops) < MaxOps
    /\ \E res \in ReadDirReplies(cookie) :
        /\ ops' = Append(ops, res)
        /\ entries' = entries \o res.entries
        /\ IF res.eof THEN pc' = "done" /\ cookie' = cookie
           ELSE IF entries \o res.entries = <<>> THEN pc' = "panicked" /\ cookie' = cookie
           ELSE pc' = "read_dir" /\ cookie' = NextCookie(entries \o res.entries)
    /\ UNCHANGED <<file_offset, amount_read, buf, source, consumed, sink, file,
                   client_owner, fs, calls, clientVars, codecVars>>

\* one turn of the loop with a ReadDir that fails
ReadDirFails ==
    /\ pc = "read_dir"
    /\ pc' = "failed"
    /\ UNCHANGED <<file_offset, amount_read, buf, source, consumed, sink, file, ops,
                   clientVars, codecVars, fsVars>>

NextReadDir == ReadDirRead \/ ReadDirFails

SpecReadDir == InitReadDir /\ [][NextReadDir]_vars

\* the entries of the first n pages
RECURSIVE Received(_)
Received(n) == IF n = 0 THEN <<>> ELSE Received(n - 1) \o ops[n].entries

\* the server said eof exactly with the pages that end the directory
EofHonestDir ==
    \A i \in 1..Len(ops) :
        ops[i].eof <=> (Len(ops[i].entries) = Len(After(fs.dir, ops[i].cookie)))

\* C22: read_dir sends its first ReadDir with cookie 0 and every later one with
\* the cookie of the last entry received so far; it stops at the first reply
\* with eof and returns the pages concatenated in order; when the server pages
\* the directory by cookie and tells its end, the names returned are the names
\* of the directory, each once.
C22_ReadDirPages ==
    /\ \A i \in 1..Len(ops) :
        /\ i = 1 => ops[i].cookie = 0
        /\ i > 1 =>
            /\ Received(i - 1) # <<>>
            /\ ops[i].cookie = Received(i - 1)[Len(Received(i - 1))].cookie
        /\ i < Len(ops) => ~ops[i].eof
    /\ entries = Received(Len(ops))
    /\ pc = "done" => Len(ops) > 0 /\ ops[Len(ops)].eof
    /\ pc = "read_dir" /\ Len(ops) > 0 => ~ops[Len(ops)].eof
    /\ pc = "done" /\ EofHonestDir =>
        /\ [i \in 1..Len(entries) |-> entries[i].name]
                = [i \in 1..Len(fs.dir) |-> fs.dir[i].name]
        /\ \A i \in 1..Len(entries) : \A j \in 1..Len(entries) :
                entries[i].name = entries[j].name => i = j

\* a directory of three entries read in two pages: two entries, then one and eof
C22_Witness ==
    /\ pc = "done"
    /\ Len(fs.dir) = 3
    /\ Len(ops) = 2
    /\ ops[1].cookie = 0
    /\ Len(ops[1].entries) = 2
    /\ ~ops[1].eof
    /\ ops[2].cookie = 4
    /\ Len(ops[2].entries) = 1
    /\ ops[2].eof
    /\ entries = fs.dir

\* an empty first page without eof: entries.last() is None and unwrap panics
C22_WitnessPanic ==
    /\ pc = "panicked"
    /\ Len(ops) = 1
    /\ ops[1].entries = <<>>
    /\ ~ops[1].eof

(***************************************************************************)
(* The round trip of the upload_download test: write_all to the file just   *)
(* created, read_all of it, get_attr of its path, one after the other on    *)
(* one Client.  The server is a conforming one: it may write fewer bytes    *)
(* than a Write carries and says so in count, it returns bytes of the file  *)
(* and tells its end truthfully.                                            *)
(***************************************************************************)
InitUploadDownload ==
    /\ \E h \in Handshakes : ReadyClient(h[1], h[2], h[3], h[4])
    /\ CodecUnused
    /\ pc = "read"
    /\ file_offset = 0
    /\ amount_read = 0
    /\ buf = <<>>
    /\ source \in BytesUpTo(MaxSource)
    /\ consumed = <<>>
    /\ sink = <<>>
    /\ file = <<>>
    /\ ops = <<>>
    /\ fs \in InitialFiles
    /\ calls = <<>>
    /\ cookie = 0
    /\ entries = <<>>

\* write_all is running
Upload ==
    /\ calls = <<>>
    /\ (WriteAllSourceRead \/ WriteAllWrite)

\* write_all returned Ok and the test calls read_all with an empty sink; the
\* size the server reports for the file is the length of what it holds
DownloadStart ==
    /\ calls = <<>>
    /\ pc = "done"
    /\ calls' = <<Call("write_all", [handle |-> FileHandle(1), writes |-> ops], Ok(NoVal))>>
    /\ fs' = [fs EXCEPT !.size[FileHandle(1)] = Len(file)]
    /\ pc' = "read"
    /\ file_offset' = 0
    /\ sink' = <<>>
    /\ ops' = <<>>
    /\ UNCHANGED <<amount_read, buf, source, consumed, file, client_owner, cookie, entries,
                   clientVars, codecVars>>

\* read_all is running, into a sink that takes every chunk
Download ==
    /\ Len(calls) = 1
    /\ ReadAllRead
    /\ pc' # "failed"
    /\ EofHonest'

\* read_all returned Ok and the test calls get_attr
SizeCall ==
    /\ Len(calls) = 1
    /\ pc = "done"
    /\ MethodCall("get_attr", [path |-> FilePath("a_file")],
                  GetAttrRequest(FilePath("a_file"), supported_attrs), "")

NextUploadDownload == Upload \/ DownloadStart \/ Download \/ SizeCall

SpecUploadDownload == InitUploadDownload /\ [][NextUploadDownload]_vars

\* the three calls have returned Ok
RoundTripDone == Len(calls) = 2 /\ LastIs("get_attr") /\ IsOk(LastCall.res)

ReportedSize == LastCall.res.val.object_attributes[SizeId].v

\* C21: against a conforming server, write_all of a source to a file just
\* created followed by read_all of the file gives exactly the bytes of the
\* source, and get_attr then reports a Size that is their number.
C21_RoundTrip ==
    RoundTripDone => sink = Supplied /\ ReportedSize = Len(Supplied)

\* the round trip holds whenever every Write was acknowledged in full
C21_RoundTripOfFullWrites ==
    RoundTripDone
        /\ (\A i \in 1..Len(calls[1].arg.writes) :
                calls[1].arg.writes[i].count = Len(calls[1].arg.writes[i].data)) =>
            sink = Supplied /\ ReportedSize = Len(Supplied)

\* the source "ab" written with max_write 2 to a server that took one byte of
\* each Write: the file is "b", read_all returned "b" and the Size is 1
C21_ShortWriteLosesBytes ==
    /\ RoundTripDone
    /\ Supplied = <<97, 98>>
    /\ calls[1].arg.writes = <<WriteOp(0, <<97, 98>>, 1), WriteOp(0, <<98>>, 1)>>
    /\ file = <<98>>
    /\ sink = <<98>>
    /\ ReportedSize = 1

\* the source "ab" written in full, read back and measured
C21_WitnessFullWrites ==
    /\ RoundTripDone
    /\ Supplied = <<97, 98>>
    /\ calls[1].arg.writes = <<WriteOp(0, <<97, 98>>, 2)>>
    /\ sink = <<97, 98>>
    /\ ReportedSize = 2

(***************************************************************************)
(* RpcClient::receive_reply on the bytes of the transport, under           *)
(* SpecReply.  The peer writes one reply message as a record of RFC 5531   *)
(* record marking: one final fragment, or a fragment whose final bit is    *)
(* clear followed by a final one, or a fragment whose final bit is clear   *)
(* and nothing after it.  The message is Message<T> of sun_rpc in XDR, T   *)
(* one of the payload types above.                                         *)
(***************************************************************************)
\* AuthFlavor's discriminants
AuthFlavors == {0, 1, 2, 3, 6}

\* AuthStat's discriminants
AuthStats == 0..7

\* OpaqueAuth::none(), serialized
XdrOpaqueAuthNone == XdrU32(0) \o XdrBytes(<<>>)

\* a message of sun_rpc: kind names the variant reached, a and b its fields
Msg(x, kind, a, b) == [xid |-> x, kind |-> kind, a |-> a, b |-> b]

\* the value of type T a message of the model carries
PayloadOf(T, m) == IF T = "unit" THEN Unit ELSE m.a

\* derive(Serialize) on Message<T> and SerializeWithDiscriminant on its enums
SerializeMessage(T, m) ==
    XdrU32(m.xid) \o
    CASE m.kind = "Call" ->
            XdrU32(0) \o XdrU32(2) \o XdrU32(m.a) \o XdrU32(4) \o XdrU32(m.b)
                \o XdrOpaqueAuthNone \o XdrOpaqueAuthNone \o XdrPayload(T, PayloadOf(T, m))
      [] m.kind = "RpcMismatch" -> XdrU32(1) \o XdrU32(1) \o XdrU32(0) \o XdrU32(m.a) \o XdrU32(m.b)
      [] m.kind = "AuthError" -> XdrU32(1) \o XdrU32(1) \o XdrU32(1) \o XdrU32(m.a)
      [] m.kind = "Success" ->
            XdrU32(1) \o XdrU32(0) \o XdrOpaqueAuthNone \o XdrU32(0) \o XdrPayload(T, PayloadOf(T, m))
      [] m.kind = "ProgramUnavailable" -> XdrU32(1) \o XdrU32(0) \o XdrOpaqueAuthNone \o XdrU32(1)
      [] m.kind = "ProgramMismatch" ->
            XdrU32(1) \o XdrU32(0) \o XdrOpaqueAuthNone \o XdrU32(2) \o XdrU32(m.a) \o XdrU32(m.b)
      [] m.kind = "ProcedureUnavailable" -> XdrU32(1) \o XdrU32(0) \o XdrOpaqueAuthNone \o XdrU32(3)
      [] m.kind = "GarbageArguments" -> XdrU32(1) \o XdrU32(0) \o XdrOpaqueAuthNone \o XdrU32(4)
      [] m.kind = "SystemError" -> XdrU32(1) \o XdrU32(0) \o XdrOpaqueAuthNone \o XdrU32(5)
      [] OTHER -> XdrU32(m.a)

\* two u32 fields one after the other
ParseTwoU32(bytes) ==
    LET low == ParseU32(bytes)
    IN  IF ~low.ok THEN low
        ELSE LET high == ParseU32(low.rest)
             IN  IF ~high.ok THEN high ELSE Parsed(<<low.val, high.val>>, high.rest)

\* derive(Deserialize) on OpaqueAuth: the flavor, then the body
ParseOpaqueAuth(bytes) ==
    LET flavor == ParseU32(bytes)
    IN  IF ~flavor.ok THEN flavor
        ELSE IF flavor.val \notin AuthFlavors THEN BadValueXdr
        ELSE ParseBytes(flavor.rest)

\* DeserializeWithDiscriminant on AcceptedReplyBody<T>
ParseAcceptedReplyBody(T, x, bytes) ==
    LET disc == ParseU32(bytes)
    IN  IF ~disc.ok THEN disc
        ELSE CASE disc.val = 0 ->
                    LET v == ParsePayload(T, disc.rest)
                    IN  IF ~v.ok THEN v ELSE Parsed(Msg(x, "Success", v.val, 0), v.rest)
               [] disc.val = 1 -> Parsed(Msg(x, "ProgramUnavailable", 0, 0), disc.rest)
               [] disc.val = 2 ->
                    LET lh == ParseTwoU32(disc.rest)
                    IN  IF ~lh.ok THEN lh
                        ELSE Parsed(Msg(x, "ProgramMismatch", lh.val[1], lh.val[2]), lh.rest)
               [] disc.val = 3 -> Parsed(Msg(x, "ProcedureUnavailable", 0, 0), disc.rest)
               [] disc.val = 4 -> Parsed(Msg(x, "GarbageArguments", 0, 0), disc.rest)
               [] disc.val = 5 -> Parsed(Msg(x, "SystemError", 0, 0), disc.rest)
               [] OTHER -> BadValueXdr

\* DeserializeWithDiscriminant on RejectedReply
ParseRejectedReply(x, bytes) ==
    LET disc == ParseU32(bytes)
    IN  IF ~disc.ok THEN disc
        ELSE CASE disc.val = 0 ->
                    LET lh == ParseTwoU32(disc.rest)
                    IN  IF ~lh.ok THEN lh
                        ELSE Parsed(Msg(x, "RpcMismatch", lh.val[1], lh.val[2]), lh.rest)
               [] disc.val = 1 ->
                    LET stat == ParseU32(disc.rest)
                    IN  IF ~stat.ok THEN stat
                        ELSE IF stat.val \notin AuthStats THEN BadValueXdr
                        ELSE Parsed(Msg(x, "AuthError", stat.val, 0), stat.rest)
               [] OTHER -> BadValueXdr

\* DeserializeWithDiscriminant on ReplyBody<T>
ParseReplyBody(T, x, bytes) ==
    LET disc == ParseU32(bytes)
    IN  IF ~disc.ok THEN disc
        ELSE CASE disc.val = 0 ->
                    LET verifier == ParseOpaqueAuth(disc.rest)
                    IN  IF ~verifier.ok THEN verifier
                        ELSE ParseAcceptedReplyBody(T, x, verifier.rest)
               [] disc.val = 1 -> ParseRejectedReply(x, disc.rest)
               [] OTHER -> BadValueXdr

\* derive(Deserialize) on CallBody<T>
ParseCallBody(T, x, bytes) ==
    LET rpc_version == ParseU32(bytes)
    IN  IF ~rpc_version.ok THEN rpc_version
        ELSE LET pv == ParseTwoU32(rpc_version.rest)
         IN  IF ~pv.ok THEN pv
        ELSE LET procedure == ParseU32(pv.rest)
         IN  IF ~procedure.ok THEN procedure
        ELSE LET credential == ParseOpaqueAuth(procedure.rest)
         IN  IF ~credential.ok THEN credential
        ELSE LET verifier == ParseOpaqueAuth(credential.rest)
         IN  IF ~verifier.ok THEN verifier
        ELSE LET call_args == ParsePayload(T, verifier.rest)
         IN  IF ~call_args.ok THEN call_args
        ELSE Parsed(Msg(x, "Call", pv.val[1], procedure.val), call_args.rest)

\* derive(Deserialize) on Message<T>: the xid, then MessageBody<T>
DeserializeMessage(T, bytes) ==
    LET x == ParseU32(bytes)
    IN  IF ~x.ok THEN x
        ELSE LET disc == ParseU32(x.rest)
             IN  IF ~disc.ok THEN disc
                 ELSE CASE disc.val = 0 -> ParseCallBody(T, x.val, disc.rest)
                        [] disc.val = 1 -> ParseReplyBody(T, x.val, disc.rest)
                        [] OTHER -> BadValueXdr

\* a Denied reply handed to the caller as if it were the call's result
MatchReplyDeniedAsOk(m) ==
    CASE m.kind \in {"Success", "RpcMismatch", "AuthError"} -> Ok(m.a)
      [] m.kind = "Call" -> SunRpc("UnexpectedReply")
      [] OTHER -> SunRpc(m.kind)

\* receive_reply, lines 93 to 109: the if let and the match
MatchReply(m) ==
    CASE m.kind = "Success" -> Ok(m.a)
      [] m.kind \in {"Call", "RpcMismatch", "AuthError"} -> SunRpc("UnexpectedReply")
      [] OTHER -> SunRpc(m.kind)

\* what a call of receive_reply gives: its result and, when the message
\* decoded, the bytes it left in the transport
Received0(res) == [res |-> res]

ReceivedLeaving(res, left) == [res |-> res, left |-> left]

\* receive_reply: the header, the length under the mask, the decoding from
\* the bytes the Take lets through, the match
ReceiveReply(T, stream) ==
    IF Len(stream) < HeaderBytes THEN Received0(SunRpc("Deseralization"))
    ELSE LET fragment_header == FromBigEndian(SubSeq(stream, 1, HeaderBytes))
             length == FragmentLength(fragment_header)
             after == Skip(stream, HeaderBytes)
             take == IF Len(after) <= length THEN after ELSE SubSeq(after, 1, length)
             reply == DeserializeMessage(T, take)
         IN  IF ~reply.ok THEN Received0(SunRpc("Deseralization"))
             ELSE ReceivedLeaving(MatchReply(reply.val),
                                  Skip(after, Len(take) - Len(reply.rest)))

\* a fragment of record marking as the peer writes it
Fragment(final, payload) ==
    ToBigEndian((IF final THEN FinalBit ELSE 0) + Len(payload), HeaderBytes) \o payload

\* the record of a message: "single" is one final fragment; "chain" a
\* fragment that is not final holding the first cut bytes and a final one
\* holding the rest; "open" a fragment that is not final and nothing more
Record(shape, cut, bytes) ==
    CASE shape = "single" -> Fragment(TRUE, bytes)
      [] shape = "chain" ->
            Fragment(FALSE, SubSeq(bytes, 1, cut)) \o Fragment(TRUE, Skip(bytes, cut))
      [] OTHER -> Fragment(FALSE, bytes)

ReplyKinds ==
    {"Success", "ProgramUnavailable", "ProgramMismatch", "ProcedureUnavailable",
     "GarbageArguments", "SystemError", "RpcMismatch", "AuthError", "Call"}

\* the messages a peer may write in answer to a call
ReplyMessages == {Msg(7, kind, a, 3) : kind \in ReplyKinds, a \in {1, 5}}

\* where a chain is cut: before the message, after its xid, before its last
\* word, after the message
Cuts(bytes) == {0, 4, Len(bytes) - 4, Len(bytes)}

ReplyPayloadTypes == {"unit", "u32"}

InitReply ==
    /\ ClientUnused
    /\ LoopUnused
    /\ FsUnused
    /\ stage = "value"
    /\ \E T \in ReplyPayloadTypes, m \in ReplyMessages, shape \in {"single", "chain", "open"} :
          \E bytes \in {SerializeMessage(T, m)} :
          \E cut \in IF shape = "chain" THEN Cuts(bytes) ELSE {Len(bytes)} :
              value = [T |-> T, kind |-> m.kind, a |-> m.a, shape |-> shape, cut |-> cut,
                       bytes |-> bytes]
    /\ wire = <<>>
    /\ back = NoVal

\* the peer writes the record to the transport
ReplyWrite ==
    /\ stage = "value"
    /\ wire' = Record(value.shape, value.cut, value.bytes)
    /\ stage' = "encoded"
    /\ UNCHANGED <<value, back, clientVars, loopVars, fsVars>>

\* the caller's receive_reply
ReplyRead ==
    /\ stage = "encoded"
    /\ back' = ReceiveReply(value.T, wire)
    /\ stage' = "decoded"
    /\ UNCHANGED <<value, wire, clientVars, loopVars, fsVars>>

NextReply == ReplyWrite \/ ReplyRead

SpecReply == InitReply /\ [][NextReply]_vars

\* the final bit of the first header of the transport
FirstFragmentFinal == HeaderOf(wire) >= FinalBit

\* C31: a fragment whose header has the final bit clear is not decoded as a
\* complete reply: receive_reply fails, or it goes on with the fragments that
\* follow and so returns having read the whole record.
C31_FinalBitValidated ==
    stage = "decoded" /\ ~FirstFragmentFinal =>
        \/ back.res.tag # "Ok"
        \/ back.left = <<>> /\ value.shape = "chain"

\* a Success reply sent as a fragment that is not final holding the whole
\* message and an empty final fragment: receive_reply returned Ok and left
\* the header of the final fragment in the transport
C31_NonFinalFragmentReturned ==
    /\ stage = "decoded"
    /\ value.T = "u32"
    /\ value.kind = "Success"
    /\ value.shape = "chain"
    /\ value.cut = Len(value.bytes)
    /\ ~FirstFragmentFinal
    /\ back.res = Ok(value.a)
    /\ back.left = Fragment(TRUE, <<>>)

\* what receive_reply does with the final bit: nothing.  The result is the
\* one the same bytes give with the bit of the first header set.
C31_FinalBitIgnored ==
    stage = "decoded" =>
        back = ReceiveReply(value.T, [wire EXCEPT ![1] = IF @ < 128 THEN @ + 128 ELSE @])

\* C32: receive_reply returns Ok, with the body, only for an Accepted reply
\* whose body is Success; ProgramUnavailable, ProgramMismatch,
\* ProcedureUnavailable, GarbageArguments and SystemError give the error of
\* the same name, a Denied reply and a Call give UnexpectedReply; however the
\* record is cut into fragments, no reply but a Success is returned as Ok.
C32_ReplyMatch ==
    /\ stage = "decoded" /\ value.shape = "single" =>
            back.res =
                CASE value.kind = "Success" ->
                        Ok(IF value.T = "unit" THEN Unit ELSE value.a)
                  [] value.kind \in {"RpcMismatch", "AuthError", "Call"} ->
                        SunRpc("UnexpectedReply")
                  [] OTHER -> SunRpc(value.kind)
    /\ stage = "decoded" /\ back.res.tag = "Ok" => value.kind = "Success"

\* a Denied reply (AuthError) read as one final fragment: UnexpectedReply
C32_Witness ==
    /\ stage = "decoded"
    /\ value.shape = "single"
    /\ value.kind = "AuthError"
    /\ wire = Fragment(TRUE, XdrU32(7) \o XdrU32(1) \o XdrU32(1) \o XdrU32(1) \o XdrU32(5))
    /\ back.res = SunRpc("UnexpectedReply")

\* a ProgramMismatch reply read as one final fragment: ProgramMismatch
C32_WitnessProgramMismatch ==
    /\ stage = "decoded"
    /\ value.shape = "single"
    /\ value.kind = "ProgramMismatch"
    /\ back.res = SunRpc("ProgramMismatch")
    /\ back.left = <<>>

(***************************************************************************)
(* Bitmaps as a peer may send them, under SpecRawAttrs: any bits, those    *)
(* of no FileAttributeId among them, read as an EnumSet (an attribute set) *)
(* or as an EnumMap (an attribute map), whose body the peer fills or not.  *)
(***************************************************************************)
\* the bits a peer sets: identifiers of the model, the gap and two bits
\* above the last identifier, one of them in a word of its own
RawPositions == {0, 4, 25, 76, 77, 100}

\* the bodies a peer sends: none, and the value of Size alone
RawBodies == {<<>>, XdrU64(258)}

InitRawAttrs ==
    /\ ClientUnused
    /\ LoopUnused
    /\ FsUnused
    /\ stage = "value"
    /\ \E type \in {"set", "map"}, bits \in SUBSET RawPositions, body \in RawBodies :
          value = [type |-> type, bits |-> bits, body |-> body]
    /\ wire = <<>>
    /\ back = NoVal

\* the peer writes the words of the bitmap and the body
RawWrite ==
    /\ stage = "value"
    /\ wire' = [map |-> SetBits(Ascending(value.bits), <<>>), body |-> value.body]
    /\ stage' = "encoded"
    /\ UNCHANGED <<value, back, clientVars, loopVars, fsVars>>

\* impl Deserialize for EnumSet, on the words
RawSetDecode ==
    /\ stage = "encoded"
    /\ value.type = "set"
    /\ back' = EnumSetTryFromRaw(wire.map)
    /\ stage' = "decoded"
    /\ UNCHANGED <<value, wire, clientVars, loopVars, fsVars>>

\* impl Deserialize for EnumMap, on the words and the body
RawMapDecode ==
    /\ stage = "encoded"
    /\ value.type = "map"
    /\ back' = EnumMapTryFromRaw(wire)
    /\ stage' = "decoded"
    /\ UNCHANGED <<value, wire, clientVars, loopVars, fsVars>>

NextRawAttrs == RawWrite \/ RawSetDecode \/ RawMapDecode

SpecRawAttrs == InitRawAttrs /\ [][NextRawAttrs]_vars

\* the bits of the bitmap that are no attribute identifier
UnknownBits == {b \in value.bits : b = 25 \/ b > 76}

\* C33: decoding an attribute set or an attribute map whose bitmap has a bit
\* at a position that is no attribute identifier (25, or above 76) fails with
\* UnknownKeyValue naming the position, the lowest one when there are several;
\* it gives no set and no map, and the failure is this one whatever the body
\* holds: no value is read before it.
C33_UnknownBitFails ==
    stage = "decoded" /\ UnknownBits # {} =>
        /\ ~back.ok
        /\ back.err.kind = "UnknownKeyValue"
        /\ back.err.key \in UnknownBits
        /\ \A b \in UnknownBits : back.err.key <= b

\* a map announcing Size and the bit 25, with the value of Size in the body:
\* UnknownKeyValue(25) and no map
C33_Witness ==
    /\ stage = "decoded"
    /\ value = [type |-> "map", bits |-> {4, 25}, body |-> XdrU64(258)]
    /\ wire.map = <<{4, 25}>>
    /\ back = DecodeErr(UnknownKeyValue(25))

\* a set with the bit 100, in the fourth word
C33_WitnessAboveLast ==
    /\ stage = "decoded"
    /\ value.type = "set"
    /\ value.bits = {0, 100}
    /\ Len(wire.map) = 4
    /\ back = DecodeErr(UnknownKeyValue(100))

\* without such a bit the set is decoded whole
C33_WitnessKnownOnly ==
    /\ stage = "decoded"
    /\ value.type = "set"
    /\ value.bits = {0, 4, 76}
    /\ back = DecodeOk({0, 4, 76})

(***************************************************************************)
(* xdr_extras::list and DirectoryList, under SpecList: a directory list    *)
(* is serialized and read back.                                            *)
(***************************************************************************)
\* entries of a list
MaxList == 3

\* impl Serialize for EnumMap as serde_xdr writes EnumMapRaw: the words of
\* the bitmap, then the body as an opaque
XdrFileAttributes(m) ==
    XdrWords(EnumMapToRaw(m).map) \o XdrBytes(EnumMapToRaw(m).body)

\* the one value of a set of one: what is read at a step is bound once, as
\* the element of such a set, for the steps after it
The(S) == CHOOSE x \in S : TRUE

\* impl Deserialize for EnumMap, from the bytes
ParseFileAttributes(bytes) ==
    The({IF ~map.ok THEN map
         ELSE The({IF ~body.ok THEN body
                   ELSE The({IF ~m.ok THEN BadValueXdr ELSE Parsed(m.val, body.rest) :
                             m \in {EnumMapTryFromRaw([map |-> map.val, body |-> body.val])}}) :
                   body \in {ParseBytes(map.rest)}}) :
         map \in {ParseWords(bytes)}})

DirectoryEntry(c, name, attrs) == [cookie |-> c, name |-> name, attrs |-> attrs]

\* derive(Serialize) on DirectoryEntry
XdrDirectoryEntry(e) == XdrU64(e.cookie) \o XdrBytes(e.name) \o XdrFileAttributes(e.attrs)

\* derive(Deserialize) on DirectoryEntry
ParseDirectoryEntry(bytes) ==
    The({IF ~c.ok THEN c
         ELSE The({IF ~name.ok THEN name
                   ELSE The({IF ~attrs.ok THEN attrs
                             ELSE Parsed(DirectoryEntry(c.val, name.val, attrs.val),
                                         attrs.rest) :
                             attrs \in {ParseFileAttributes(name.rest)}}) :
                   name \in {ParseBytes(c.rest)}}) :
         c \in {ParseU64(bytes)}})

\* a list written without its end
RECURSIVE XdrListNoEnd(_)
XdrListNoEnd(list) ==
    IF list = <<>> THEN <<>>
    ELSE XdrU32(1) \o XdrDirectoryEntry(Head(list)) \o XdrListNoEnd(Tail(list))

\* list::serialize: Some(v) for every entry, then None
RECURSIVE XdrList(_)
XdrList(list) ==
    IF list = <<>> THEN XdrU32(0)
    ELSE XdrU32(1) \o XdrDirectoryEntry(Head(list)) \o XdrList(Tail(list))

\* list::deserialize, visit_seq: Option<T> after Option<T> until the first
\* None; a flag that is neither 0 nor 1 is no Option
RECURSIVE ParseList(_, _)
ParseList(bytes, res) ==
    The({IF ~flag.ok THEN flag
         ELSE IF flag.val = 0 THEN Parsed(res, flag.rest)
         ELSE IF flag.val # 1 THEN BadValueXdr
         ELSE The({IF ~v.ok THEN v ELSE ParseList(v.rest, Append(res, v.val)) :
                   v \in {ParseDirectoryEntry(flag.rest)}}) :
         flag \in {ParseU32(bytes)}})

DirectoryList(list, eof) == [entries |-> list, eof |-> eof]

\* derive(Serialize) on DirectoryList
XdrDirectoryList(d) == XdrList(d.entries) \o XdrBool(d.eof)

\* derive(Deserialize) on DirectoryList
ParseDirectoryList(bytes) ==
    The({IF ~list.ok THEN list
         ELSE The({IF ~eof.ok THEN eof
                   ELSE Parsed(DirectoryList(list.val, eof.val), eof.rest) :
                   eof \in {ParseBool(list.rest)}}) :
         list \in {ParseList(bytes, <<>>)}})

\* entries of the model: one whose encoding is zero bytes up to its bitmap,
\* one with a name, one with a name and the attribute Size
EntrySamples ==
    {DirectoryEntry(0, <<>>, <<>>),
     DirectoryEntry(3, <<97>>, <<>>),
     DirectoryEntry(258, <<97, 98, 99, 100>>, EnumMapFromIter(<<Attr(4, 1)>>))}

InitList ==
    /\ ClientUnused
    /\ LoopUnused
    /\ FsUnused
    /\ stage = "value"
    /\ \E n \in 0..MaxList : \E list \in [1..n -> EntrySamples] : \E eof \in BOOLEAN :
          value = DirectoryList(list, eof)
    /\ wire = <<>>
    /\ back = NoVal

ListEncode ==
    /\ stage = "value"
    /\ wire' = XdrDirectoryList(value)
    /\ stage' = "encoded"
    /\ UNCHANGED <<value, back, clientVars, loopVars, fsVars>>

ListDecode ==
    /\ stage = "encoded"
    /\ back' = ParseDirectoryList(wire)
    /\ stage' = "decoded"
    /\ UNCHANGED <<value, wire, clientVars, loopVars, fsVars>>

NextList == ListEncode \/ ListDecode

SpecList == InitList /\ [][NextList]_vars

\* where the flag of entry i is on the wire: after the flags and the
\* encodings of the entries before it
RECURSIVE FlagOffset(_, _)
FlagOffset(list, i) ==
    IF i = 1 THEN 0
    ELSE FlagOffset(list, i - 1) + 4 + Len(XdrDirectoryEntry(list[i - 1]))

\* C34: the wire holds every entry in order, each preceded by the flag 1,
\* then the flag 0, then the eof boolean (an empty list is the flag 0 alone);
\* reading it back gives the same entries in the same order and the same eof,
\* with nothing left over.
C34_ListCodec ==
    /\ stage \in {"encoded", "decoded"} =>
          LET n == Len(value.entries)
              end == FlagOffset(value.entries, n + 1)
          IN  /\ \A i \in 1..n :
                    LET at == FlagOffset(value.entries, i)
                        e == XdrDirectoryEntry(value.entries[i])
                    IN  /\ SubSeq(wire, at + 1, at + 4) = <<0, 0, 0, 1>>
                        /\ SubSeq(wire, at + 5, at + 4 + Len(e)) = e
              /\ SubSeq(wire, end + 1, end + 4) = <<0, 0, 0, 0>>
              /\ SubSeq(wire, end + 5, end + 8) = <<0, 0, 0, IF value.eof THEN 1 ELSE 0>>
              /\ Len(wire) = end + 8
    /\ stage = "decoded" => back = Parsed(value, <<>>)

\* a list of two entries, the first one all zero bytes, with eof true
C34_Witness ==
    /\ stage = "decoded"
    /\ Len(value.entries) = 2
    /\ value.entries[1] = DirectoryEntry(0, <<>>, <<>>)
    /\ value.entries[2].name = <<97, 98, 99, 100>>
    /\ value.eof
    /\ back.ok
    /\ back.val.entries = value.entries
    /\ back.val.eof

\* the empty list with eof true: the flag 0 and the boolean
C34_WitnessEmpty ==
    /\ stage = "decoded"
    /\ value = DirectoryList(<<>>, TRUE)
    /\ wire = <<0, 0, 0, 0, 0, 0, 0, 1>>
    /\ back = Parsed(value, <<>>)

\* C35 as claimed: every ReadDir request of read_dir has cookie_verifier 0,
\* dir_count 1000, max_count 1000 and an attr_request equal to the supported
\* attributes recorded at the handshake.
C35_AttrRequestIsSupported ==
    \A i \in 1..Len(ops) :
        /\ ops[i].cookie_verifier = 0
        /\ ops[i].directory_count = 1000
        /\ ops[i].max_count = 1000
        /\ ops[i].attr_request = supported_attrs

\* C35, amended: every ReadDir request of read_dir has cookie_verifier 0,
\* dir_count 1000, max_count 1000 and an attr_request equal to the supported
\* attributes recorded at the handshake less TimeAccessSet and TimeModifySet,
\* the same in every request of the call.
C35_ReadDirArgs ==
    \A i \in 1..Len(ops) :
        /\ ops[i].cookie_verifier = 0
        /\ ops[i].directory_count = 1000
        /\ ops[i].max_count = 1000
        /\ ops[i].attr_request = supported_attrs \ {TimeAccessSetId, TimeModifySetId}
        /\ TimeAccessSetId \notin ops[i].attr_request
        /\ TimeModifySetId \notin ops[i].attr_request

\* two requests on a Client whose server supports TimeAccessSet: neither asks
\* for it
C35_Witness ==
    /\ Len(ops) = 2
    /\ TimeAccessSetId \in supported_attrs
    /\ ops[1].attr_request # supported_attrs
    /\ ops[2].attr_request = supported_attrs \ {TimeAccessSetId}
    /\ ops[2].cookie # 0

(***************************************************************************)
(* Client::write_all for any max_write the handshake may have recorded and *)
(* any count a Write may be answered with, under SpecWriteAllAnyReply.     *)
(***************************************************************************)
InitWriteAllAnyReply ==
    /\ \E mw \in 0..MaxChunk : LoopClient(0, mw)
    /\ CodecUnused
    /\ FsUnused
    /\ pc = "read"
    /\ file_offset = 0
    /\ amount_read = 0
    /\ buf = <<>>
    /\ source \in BytesUpTo(MaxSource)
    /\ consumed = <<>>
    /\ sink = <<>>
    /\ file = <<>>
    /\ ops = <<>>

NextWriteAllAnyReply ==
    \/ WriteAllSourceRead
    \/ WriteAllSourceFails
    \/ WriteAllWrite
    \/ WriteAllWriteOtherCount
    \/ WriteAllWriteFails

SpecWriteAllAnyReply == InitWriteAllAnyReply /\ [][NextWriteAllAnyReply]_vars

\* the Write that opens a chunk: the first one, and every one that follows a
\* Write acknowledged to the end of its data
OpensChunk(i) == i = 1 \/ ops[i - 1].count >= Len(ops[i - 1].data)

\* the data of the Writes that open a chunk, one after the other: every byte
\* that went to the server in some Write
RECURSIVE SentUpTo(_)
SentUpTo(n) ==
    IF n = 0 THEN <<>>
    ELSE SentUpTo(n - 1) \o (IF OpensChunk(n) THEN ops[n].data ELSE <<>>)

\* C36: write_all returns Ok only after every byte of the source has been
\* sent to the server in some Write, for every recorded max_write, 0 too, and
\* every pattern of partial reads from the source.
C36_OkOnlyAfterAllSent ==
    pc = "done" => source = <<>> /\ SentUpTo(Len(ops)) = Supplied

\* the same for a recorded max_write of at least 1
C36_OkOnlyAfterAllSentPositive ==
    pc = "done" /\ max_write > 0 => source = <<>> /\ SentUpTo(Len(ops)) = Supplied

\* max_write 0 and a source of one byte: write_all returned Ok and no Write
\* was sent
C36_NothingSent ==
    /\ pc = "done"
    /\ max_write = 0
    /\ Supplied = <<97>>
    /\ source = <<97>>
    /\ ops = <<>>
    /\ file = <<>>

\* the bytes write_all still has to write: those in buf and those the source
\* has left
Remaining == Len(buf) + Len(source)

\* a step that takes the reply of a Write
WriteReplied == Len(ops') = Len(ops) + 1

\* C37: the number of bytes still to be written strictly decreases with every
\* Write reply, whatever count the reply reports.
C37_RemainingDecreases ==
    [][WriteReplied => Len(buf') + Len(source') < Remaining]_vars

\* with a count from 1 to the bytes sent it does
C37_RemainingDecreasesConforming ==
    [][WriteReplied /\ ops'[Len(ops')].count \in 1..Len(buf) =>
            Len(buf') + Len(source') < Remaining]_vars

\* a Write of "ab" answered with count 0 and sent again as it was, and again:
\* write_all has not returned and has as much to write as before
C37_SameWriteRepeated ==
    /\ pc = "write"
    /\ Len(ops) = MaxOps
    /\ \A i \in 1..Len(ops) : ops[i] = WriteOp(0, <<97, 98>>, 0)
    /\ buf = <<97, 98>>

\* C38: for every count of a Write reply write_all's position stays within
\* its buffer: a count above the bytes sent leads to an error result or to
\* the end of the chunk, never to an out-of-range access that aborts.
C38_CountWithinBuffer ==
    Len(ops) > 0 /\ ops[Len(ops)].count > Len(ops[Len(ops)].data) =>
        pc \in {"failed", "read", "done"}

\* with a count up to the bytes sent nothing aborts
C38_NoAbortWithinRange ==
    pc = "panicked" => ops[Len(ops)].count > Len(ops[Len(ops)].data)

\* a Write of "a" answered with count 2: buf[2..] of a buf of one byte
C38_SliceOutOfRange ==
    /\ pc = "panicked"
    /\ Len(ops) = 1
    /\ ops[1] = WriteOp(0, <<97>>, 2)
    /\ buf = <<97>>

(***************************************************************************)
(* Client::new and a handshake GetAttr reply that lacks an attribute,      *)
(* under Spec.                                                             *)
(***************************************************************************)
\* C40: when the handshake GetAttr reply lacks SupportedAttrs, MaxRead or
\* MaxWrite, or carries one with another value type, Client::new returns an
\* Err: it does not abort the caller, and it returns no Client.
C40_MissingAttrIsErr ==
    Len(results) = 3 /\ results[3] = "Ok" /\ ~RootAttrsUsable(last.val.object_attributes) =>
        phase = "new_err"

\* the Client that Client::new returns has the three values of the reply
C40_ReadyClientHasValues ==
    phase = "ready" /\ Len(results) = 3 =>
        /\ RootAttrsUsable(last.val.object_attributes)
        /\ supported_attrs = last.val.object_attributes[SupportedAttrsId].v
        /\ max_read = last.val.object_attributes[MaxReadId].v
        /\ max_write = last.val.object_attributes[MaxWriteId].v

\* a GetAttr reply without MaxWrite: get_as gives None and unwrap panics
C40_UnwrapPanics ==
    /\ phase = "new_panic"
    /\ results = <<"Ok", "Ok", "Ok">>
    /\ MaxWriteId \notin DOMAIN last.val.object_attributes
    /\ SupportedAttrsId \in DOMAIN last.val.object_attributes
    /\ MaxReadId \in DOMAIN last.val.object_attributes

\* a GetAttr reply whose MaxRead is no u64: get_as gives None and unwrap panics
C40_UnwrapPanicsOnType ==
    /\ phase = "new_panic"
    /\ results = <<"Ok", "Ok", "Ok">>
    /\ DOMAIN last.val.object_attributes = {SupportedAttrsId, MaxReadId, MaxWriteId}
    /\ ~HasAs(last.val.object_attributes, MaxReadId, "u64")

\* C39: read_dir's continuation cookie is always defined and always
\* advances: after a reply without eof the next request has the cookie of the
\* last entry accumulated, an empty reply without eof when nothing has been
\* accumulated gives an error result and no abort, and no cookie is requested
\* twice in one call.
C39_CookieDefinedAndAdvances ==
    /\ pc # "panicked"
    /\ \A i \in 1..Len(ops) : \A j \in 1..Len(ops) :
            ops[i].cookie = ops[j].cookie => i = j
    /\ \A i \in 2..Len(ops) :
            /\ Received(i - 1) # <<>>
            /\ ops[i].cookie = Received(i - 1)[Len(Received(i - 1))].cookie

\* what holds of the cookie: a request that follows a reply without eof has
\* the cookie of the last entry accumulated, and that is a new cookie exactly
\* when the reply before it had an entry
C39_CookieFollowsLastEntry ==
    \A i \in 2..Len(ops) :
        /\ Received(i - 1) # <<>>
        /\ ops[i].cookie = Received(i - 1)[Len(Received(i - 1))].cookie
        /\ (ops[i].cookie = ops[i - 1].cookie) = (ops[i - 1].entries = <<>>)

\* a directory of one entry whose server answers the first ReadDir with no
\* entry and no eof: read_dir aborts, having returned nothing
C39_EmptyFirstPageAborts ==
    /\ pc = "panicked"
    /\ Len(fs.dir) = 1
    /\ ops = <<ReadDirOp(0, ReadDirAttrRequest(supported_attrs), <<>>, FALSE)>>
    /\ entries = <<>>
    /\ cookie = 0

\* an empty reply without eof after the first entry: the same cookie is
\* requested again
C39_SameCookieTwice ==
    /\ pc = "read_dir"
    /\ Len(ops) = 3
    /\ ops[1].entries # <<>>
    /\ ops[2].entries = <<>>
    /\ ops[2].cookie = ops[3].cookie

====
